---------------------------- MODULE Spec2Model ----------------------------
(***************************************************************************)
(* Zynthian control-device drivers for the Novation Launchkey (Mini) MK4   *)
(* 37:                                                                     *)
(*   "mini"   = zynthian_ctrldev_launchkey_mini_mk4_37 (transport-mode,    *)
(*              relative encoders on CC 85..92)                            *)
(*   "pickup" = zynthian_ctrldev_launchkey_mk4_37 (absolute knobs on CC    *)
(*              21..28 with soft takeover)                                 *)
(* Units: time is counted in hundredths of a second (0.5 s = 50), mixer    *)
(* levels in 1/12700 (v/127 = 100*v, one 0.01 nudge = 127), both exact.    *)
(***************************************************************************)
EXTENDS Integers, Sequences, FiniteSets, TLC

VARIABLES
    variant,                \* which of the two driver classes this instance is
    idev_out,               \* self.idev_out: "out" for a device index, or None
    phase,                  \* "constructed" (after __init__), "running" (after init), "ended"
    shift,                  \* self.shift
    press_times,            \* self.press_times: ccnum -> time of the press
    knob_bank,              \* self.knob_bank
    last_select_back_time,  \* self.last_select_back_time (mini)
    mixer_synced,           \* self.mixer_synced: the keys of the dict (pickup)
    last_zynpot_values,     \* self.last_zynpot_values: ccnum -> last raw value (pickup)
    now,                    \* what time() returns
    chain_at,               \* chain_manager.get_chain_by_position(p): mixer_chan, NoChan or NoChain
    level, solo, mute,      \* zynmixer state per mixer channel
    preset_index,           \* preset index of the active chain's processor
    subscribed,             \* the notifications the driver is registered for
    timer,                  \* the Timer that init starts: "none", "pending", "running" or "fired" (pickup)
    timer_job,              \* the update_pad_leds call on the Timer's thread: pads written so far, and
                            \* the code it has read for the next pad and not yet written (-1: none)
    queue,                  \* notifications raised and not yet delivered to the driver
    indicator,              \* the device: value last written to the bank indicators CC 51 / CC 52
    pad_led,                \* the device: code last written to each pad LED (notes 96..103, 112..119)
    last_ev,                \* the event the last midi_event call handled (<<>> for other steps)
    delivered,              \* the notification the last step delivered (NoNotification for other steps)
    ret,                    \* what that call returned
    raised,                 \* whether that call ended in an exception instead of returning
    cuia,                   \* state_manager.send_cuia calls of the last step
    dev,                    \* lib_zyncore.dev_send_* calls of the last step
    zynmidi,                \* lib_zyncore.write_zynmidi calls of the last step
    host_calls,             \* zynmixer.set_*, zynseq.select_bank, set_preset calls of the last step
    bank_run,               \* history: the current run of bank changes made by one button
    ext_changed,            \* history: channels whose level the host changed since the driver last wrote it
    ev_refreshes            \* history: pad LED refreshes made for the last event, in its step and by
                            \* the notifications its mutations raised

drv_vars == <<shift, press_times, knob_bank, last_select_back_time, mixer_synced, last_zynpot_values>>
host_vars == <<chain_at, level, solo, mute, preset_index>>
out_vars == <<last_ev, delivered, ret, raised, cuia, dev, zynmidi, host_calls>>
hist_vars == <<bank_run, ext_changed, ev_refreshes>>
vars == <<variant, idev_out, phase, now, subscribed, timer, timer_job, queue, indicator, pad_led,
          drv_vars, host_vars, out_vars, hist_vars>>

---------------------------------------------------------------------------
(* Bounds of the model *)

\* time() at construction, in 1/100 s since the epoch (far more than any threshold)
StartTime == 200
\* the clock is not advanced further than this many 1/100 s after StartTime
MaxElapsed == 150
\* at most this many switches are held at once
MaxHeld == 2
\* number of presets of the active processor
PresetCount == 2
\* at most this many notifications wait for delivery
MaxQueue == 2

MaxTime == StartTime + MaxElapsed

---------------------------------------------------------------------------
(* Program constants *)

None == "None"

\* hold thresholds: duration < 0.5 short, < 1.5 bold, else long
ShortBelow == 50
BoldBelow == 150
\* SELECT/BACK debounce: 0.6 s
Debounce == 60
\* mixer channels below this are valid
MaxMixerChan == 17

LevelOne == 127 * 100
\* abs(new_level - current_level) < 0.02
Tolerance == 2 * 127
\* one unit of delta nudges the level by 0.01
NudgeStep == 127

\* chain_at values that are not a mixer channel: the lookup raises, there is no
\* chain at the position, the chain has no mixer channel
LookupFails == -3
NoChain == -2
NoChan == -1

Positions == 0..7

Max(a, b) == IF a > b THEN a ELSE b
Min(a, b) == IF a < b THEN a ELSE b
Abs(a) == IF a < 0 THEN -a ELSE a

\* button 104 / 105 "as ZYNSWITCH 3 with press/release detection"
HoldButton(var) == IF var = "mini" THEN 104 ELSE 105
ZynSwitchCCs == {74, 75, 76, 77}
HoldCCs(var) == ZynSwitchCCs \cup {HoldButton(var)}

\* button_commands
ButtonCommandCCs(var) ==
    IF var = "mini" THEN {107, 105, 102, 103, 106} ELSE {106, 107, 102, 103, 104}
button_commands(var, cc) ==
    IF var = "mini"
    THEN CASE cc = 107 -> "PRESET" [] cc = 105 -> "MENU" [] cc = 102 -> "ARROW_RIGHT"
           [] cc = 103 -> "ARROW_LEFT" [] cc = 106 -> "BACK" [] OTHER -> None
    ELSE CASE cc = 106 -> "PRESET" [] cc = 107 -> "MENU" [] cc = 102 -> "ARROW_RIGHT"
           [] cc = 103 -> "ARROW_LEFT" [] cc = 104 -> "BACK" [] OTHER -> None

\* first knob controller: CC 85..92 (mini), CC 21..28 (pickup)
KnobBase(var) == IF var = "mini" THEN 85 ELSE 21
IsKnob(var, cc) == IF var = "mini" THEN 84 < cc /\ cc < 93 ELSE 20 < cc /\ cc < 29

---------------------------------------------------------------------------
(* Calls the driver makes, as values *)

Cuia(name) == [name |-> name, idx |-> -1, delta |-> 0, type |-> ""]
ZynSwitch(i, t) == [name |-> "ZYNSWITCH", idx |-> i, delta |-> 0, type |-> t]
ZynPot(i, d) == [name |-> "ZYNPOT", idx |-> i, delta |-> d, type |-> ""]
RefreshScreen(s) == [name |-> "refresh_screen", idx |-> -1, delta |-> 0, type |-> s]

DevCC(chan, cc, val) == [msg |-> "cc", chan |-> chan, num |-> cc, val |-> val]
DevNoteOn(chan, note, vel) == [msg |-> "note_on", chan |-> chan, num |-> note, val |-> vel]

HostCall(op, chan, val) == [op |-> op, chan |-> chan, val |-> val]

\* the first three bytes of a MIDI message
evtype(ev) == (ev[1] \div 16) % 16
ev_chan(ev) == ev[1] % 16
CC(cc, val) == <<176, cc, val>>
NoteOn(note, vel) == <<144, note, vel>>
NoteOff(note, vel) == <<128, note, vel>>

---------------------------------------------------------------------------
(* The state a method works on: the object's fields, the host state it     *)
(* reads and writes, and the calls it has made so far.                     *)

Cur ==
    [ shift |-> shift, press_times |-> press_times, knob_bank |-> knob_bank,
      last_select_back_time |-> last_select_back_time, mixer_synced |-> mixer_synced,
      last_zynpot_values |-> last_zynpot_values,
      level |-> level, solo |-> solo, mute |-> mute, preset_index |-> preset_index,
      queue |-> queue,
      ret |-> FALSE, raised |-> FALSE,
      cuia |-> <<>>, dev |-> <<>>, zynmidi |-> <<>>, host_calls |-> <<>> ]

send_cuia(s, c) == [s EXCEPT !.cuia = Append(@, c)]
dev_send(s, m) == [s EXCEPT !.dev = Append(@, m)]
write_zynmidi(s, ev) == [s EXCEPT !.zynmidi = Append(@, ev)]
Return(s, r) == IF s.raised THEN s ELSE [s EXCEPT !.ret = r]
\* an exception leaves the method: what was done before it stays done
Raise(s) == [s EXCEPT !.raised = TRUE, !.ret = FALSE]

\* chain and chain.mixer_chan is not None and chain.mixer_chan < 17
ValidChain(p) == chain_at[p] >= 0 /\ chain_at[p] < MaxMixerChan
\* get_chain_by_position(p) raises
LookupRaises(p) == chain_at[p] = LookupFails

---------------------------------------------------------------------------
(* Notifications: what the driver registers for, and the host raising them *)

\* zynsigman.register_queued(...) in init of the mini variant
MiniSignals == {"SS_SET_ACTIVE_CHAIN", "SS_MOVE_CHAIN", "SS_ZCTRL_SET_VALUE", "SS_GUI_SHOW_SCREEN"}
\* state_manager signals the pickup variant tries to connect to, in this order
PickupSignals == <<"chain_manager_changed_signal", "level_changed_signal">>

\* symbol is the mixer parameter of SS_ZCTRL_SET_VALUE ("" for the other signals);
\* origin is "event" for a notification raised by a call the driver made while it
\* handled the last event, "other" for every other one
Notification(sig, symbol, origin) == [sig |-> sig, symbol |-> symbol, origin |-> origin]

NoNotification == Notification("", "", "")

\* the host raises a signal: it is queued for the driver if the driver registered for it
raise_signal(q, sig, symbol, origin) ==
    IF sig \in subscribed THEN Append(q, Notification(sig, symbol, origin)) ELSE q

\* a mixer value is set: SS_ZCTRL_SET_VALUE with the parameter's symbol
mixer_signals(q, symbol, origin) ==
    LET a == raise_signal(q, "SS_ZCTRL_SET_VALUE", symbol, origin)
    IN IF symbol = "level" THEN raise_signal(a, "level_changed_signal", "", origin) ELSE a

---------------------------------------------------------------------------
(* zynmixer and processor calls *)

set_level(s, ch, v) ==
    [s EXCEPT !.level = [@ EXCEPT ![ch] = v],
              !.queue = mixer_signals(@, "level", "event"),
              !.host_calls = Append(@, HostCall("set_level", ch, v))]
set_solo(s, ch, v) ==
    [s EXCEPT !.solo = [@ EXCEPT ![ch] = v],
              !.queue = mixer_signals(@, "solo", "event"),
              !.host_calls = Append(@, HostCall("set_solo", ch, v))]
set_mute(s, ch, v) ==
    [s EXCEPT !.mute = [@ EXCEPT ![ch] = v],
              !.queue = mixer_signals(@, "mute", "event"),
              !.host_calls = Append(@, HostCall("set_mute", ch, v))]
set_preset(s, i) ==
    [s EXCEPT !.preset_index = i,
              !.host_calls = Append(@, HostCall("set_preset", -1, i))]
select_bank(s, b) ==
    [s EXCEPT !.host_calls = Append(@, HostCall("select_bank", -1, b))]

---------------------------------------------------------------------------
(* LED Reflector *)

\* the two bank indicator writes that end update_button_leds
BankLeds(bank) ==
    << DevCC(0, 51, IF bank = 0 THEN 127 ELSE 0),
       DevCC(0, 52, IF bank = 1 THEN 127 ELSE 0) >>

update_button_leds(s) ==
    IF idev_out = None THEN s
    ELSE [s EXCEPT !.dev = @ \o << DevCC(0, 104, 127), DevCC(0, 105, 127), DevCC(0, 102, 127),
                                   DevCC(0, 103, 127), DevCC(0, 106, 127), DevCC(0, 107, 127) >>
                               \o BankLeds(s.knob_bank)]

SoloVel(var, soloed) ==
    IF var = "mini" THEN (IF soloed THEN 14 ELSE 118) ELSE (IF soloed THEN 5 ELSE 10)
\* the two mute codes the wrong way round
MuteVel_Swapped(muted) == IF muted THEN 64 ELSE 5

MuteVel(muted) == IF muted THEN 5 ELSE 64

\* the code of one pad: off if the lookup of its position raises ("Error getting
\* chain - turn off LED") or finds no chain with a mixer channel below 17
SoloPadCode(s, p) ==
    IF LookupRaises(p) THEN 0
    ELSE IF ValidChain(p) THEN SoloVel(variant, s.solo[chain_at[p]] # 0) ELSE 0
MutePadCode(s, p) ==
    IF LookupRaises(p) THEN 0
    ELSE IF ValidChain(p) THEN MuteVel(s.mute[chain_at[p]] # 0) ELSE 0

\* a refresh without a handler around each position: the first lookup that raises
\* ends it
update_pad_leds_Aborting(s) ==
    LET all == [i \in 1..8 |-> DevNoteOn(0, 96 + (i - 1), SoloPadCode(s, i - 1))]
               \o [i \in 1..8 |-> DevNoteOn(0, 112 + (i - 1), MutePadCode(s, i - 1))]
        failing == {i \in 1..16 : LookupRaises((i - 1) % 8)}
        n == IF failing = {} THEN 16
             ELSE (CHOOSE i \in failing : \A j \in failing : i <= j) - 1
    IN IF idev_out = None THEN s ELSE [s EXCEPT !.dev = @ \o SubSeq(all, 1, n)]

update_pad_leds(s) ==
    IF idev_out = None THEN s
    ELSE [s EXCEPT !.dev = @ \o [i \in 1..8 |-> DevNoteOn(0, 96 + (i - 1), SoloPadCode(s, i - 1))]
                               \o [i \in 1..8 |-> DevNoteOn(0, 112 + (i - 1), MutePadCode(s, i - 1))]]

---------------------------------------------------------------------------
(* midi_event: note events *)

SoloPad(s, track) ==
    IF LookupRaises(track) THEN Raise(s)
    ELSE IF ValidChain(track)
    THEN LET ch == chain_at[track]
         IN update_pad_leds(set_solo(s, ch, IF s.solo[ch] # 0 THEN 0 ELSE 1))
    ELSE s

MutePad(s, track) ==
    IF LookupRaises(track) THEN Raise(s)
    ELSE IF ValidChain(track)
    THEN LET ch == chain_at[track]
         IN update_pad_leds(set_mute(s, ch, IF s.mute[ch] # 0 THEN 0 ELSE 1))
    ELSE s

\* the pad range taken one note too wide at both ends
NoteEvent_WideRange(s, ev) ==
    LET note == ev[2] % 128
        vel == ev[3] % 128
    IN IF 95 <= note /\ note <= 120
       THEN Return(IF 96 <= note /\ note <= 103 /\ evtype(ev) = 9 /\ vel > 0
                     THEN SoloPad(s, note - 96)
                   ELSE IF 112 <= note /\ note <= 119 /\ evtype(ev) = 9 /\ vel > 0
                     THEN MutePad(s, note - 112)
                   ELSE s, TRUE)
       ELSE Return(write_zynmidi(s, ev), TRUE)

NoteEvent(s, ev) ==
    LET note == ev[2] % 128
        vel == ev[3] % 128
    IN IF 96 <= note /\ note <= 119
       THEN Return(IF 96 <= note /\ note <= 103 /\ evtype(ev) = 9 /\ vel > 0
                     THEN SoloPad(s, note - 96)
                   ELSE IF 112 <= note /\ note <= 119 /\ evtype(ev) = 9 /\ vel > 0
                     THEN MutePad(s, note - 112)
                   ELSE s, TRUE)
       ELSE Return(write_zynmidi(s, ev), TRUE)

---------------------------------------------------------------------------
(* midi_event: bank buttons, shift *)

\* a bank-down that stops at bank 0 instead of wrapping
PrevBank_NoWrap(b) == IF b = 0 THEN 0 ELSE b - 1

PrevBank(b) == (b - 1) % 3

\* a bank-up without the wrap from bank 2 to bank 0
NextBank_NoWrap(b) == b + 1

NextBank(b) == (b + 1) % 3

\* what a bank change resets besides knob_bank
BankReset(s) == IF variant = "pickup" THEN [s EXCEPT !.mixer_synced = {}] ELSE s

\* a bank-down that sends the arrow and changes the bank as well
BankDown_NoElse(s) ==
    LET a == IF s.shift THEN send_cuia(s, Cuia("ARROW_UP")) ELSE s
    IN Return(update_button_leds(BankReset([a EXCEPT !.knob_bank = PrevBank(@)])), TRUE)

BankDown(s) ==
    Return(IF s.shift THEN send_cuia(s, Cuia("ARROW_UP"))
           ELSE update_button_leds(BankReset([s EXCEPT !.knob_bank = PrevBank(@)])), TRUE)

\* a bank-up that leaves the indicators as they are
BankUp_NoLeds(s) ==
    Return(IF s.shift THEN send_cuia(s, Cuia("ARROW_DOWN"))
           ELSE BankReset([s EXCEPT !.knob_bank = NextBank(@)]), TRUE)

BankUp(s) ==
    Return(IF s.shift THEN send_cuia(s, Cuia("ARROW_DOWN"))
           ELSE update_button_leds(BankReset([s EXCEPT !.knob_bank = NextBank(@)])), TRUE)

\* shift only for the full value
ShiftButton_FullOnly(s, ccval) == Return([s EXCEPT !.shift = (ccval = 127)], TRUE)

\* elif ccnum == 0x3F: self.shift = ccval != 0
ShiftButton(s, ccval) == Return([s EXCEPT !.shift = (ccval # 0)], TRUE)

---------------------------------------------------------------------------
(* midi_event: Hold Classifier *)

\* the thresholds taken on the wrong side: 0.5 s still short, 1.5 s still bold
HoldType_Inclusive(duration) ==
    IF duration <= ShortBelow THEN "S" ELSE IF duration <= BoldBelow THEN "B" ELSE "L"

HoldType(duration) ==
    IF duration < ShortBelow THEN "S" ELSE IF duration < BoldBelow THEN "B" ELSE "L"

zynswitch_index(cc) == CASE cc = 74 -> 0 [] cc = 75 -> 1 [] cc = 76 -> 3 [] cc = 77 -> 2

\* a press that forgets the presses registered before it
Press_Fresh(s, cc) == [s EXCEPT !.press_times = [c \in {cc} |-> now]]

\* "Button press: Record the current time"
Press(s, cc) ==
    [s EXCEPT !.press_times = [c \in (DOMAIN @) \cup {cc} |-> IF c = cc THEN now ELSE @[c]]]

\* a release that takes a missing press time as 0
Release_Unchecked(s, cc, idx) ==
    LET pressed == IF cc \in DOMAIN s.press_times THEN s.press_times[cc] ELSE 0
    IN [send_cuia(s, ZynSwitch(idx, HoldType(now - pressed)))
          EXCEPT !.press_times = [c \in (DOMAIN @) \ {cc} |-> @[c]]]

\* "Button release: Calculate the duration and send the command"
Release(s, cc, idx) ==
    IF cc \in DOMAIN s.press_times
    THEN [send_cuia(s, ZynSwitch(idx, HoldType(now - s.press_times[cc])))
            EXCEPT !.press_times = [c \in (DOMAIN @) \ {cc} |-> @[c]]]
    ELSE s

\* elif ccnum == 104 (mini) / 105 (pickup)
HoldButtonEvent(s, cc, ccval) ==
    Return(IF ccval > 0 THEN dev_send(Press(s, cc), DevCC(0, cc, 127))
           ELSE Release(s, cc, 3), TRUE)

\* the shifted CC 76 going on into the press / release logic after its TEMPO
ZynSwitchEvent_NoEarlyReturn(s, cc, ccval) ==
    LET t == IF s.shift /\ cc = 76 /\ ccval > 0 THEN send_cuia(s, Cuia("TEMPO")) ELSE s
    IN Return(IF ccval > 0 THEN Press(t, cc) ELSE Release(t, cc, zynswitch_index(cc)), TRUE)

\* elif ccnum in [74, 75, 76, 77]
ZynSwitchEvent(s, cc, ccval) ==
    IF s.shift /\ cc = 76
    THEN Return(IF ccval > 0 THEN send_cuia(s, Cuia("TEMPO")) ELSE s, TRUE)
    ELSE Return(IF ccval > 0 THEN Press(s, cc) ELSE Release(s, cc, zynswitch_index(cc)), TRUE)

---------------------------------------------------------------------------
(* midi_event: Encoder Interpreter, transport mode (mini) *)

\* "Convert relative encoder value to delta" of the bank 0 mixer path
MixerDelta(ccval) ==
    IF ccval = 1 \/ ccval < 64 THEN (IF ccval = 1 THEN -1 ELSE -(64 - ccval))
    ELSE IF ccval = 127 \/ ccval > 64 THEN (IF ccval = 127 THEN 1 ELSE ccval - 64)
    ELSE 0

\* the conversion without the minimum steps at the ends of the range
ZynpotDelta_NoMinStep(ccval) == ccval - 64

\* "Convert relative encoder value to delta" of the bank 1 ZYNPOT path
ZynpotDelta(ccval) ==
    IF ccval = 1 \/ ccval < 64 THEN (IF ccval = 1 THEN -1 ELSE -(64 - ccval))
    ELSE IF ccval = 127 \/ ccval > 64 THEN (IF ccval = 127 THEN 1 ELSE ccval - 64)
    ELSE 0

\* direction only: knob 5 (presets)
Direction(ccval) ==
    IF ccval = 1 \/ ccval < 64 THEN -1
    ELSE IF ccval = 127 \/ ccval > 64 THEN 1
    ELSE 0

\* the nudge without the clamp
NudgedLevel_Unclamped(current_level, delta) == current_level + delta * NudgeStep

\* max(0.0, min(1.0, current_level + (delta * 0.01)))
NudgedLevel(current_level, delta) == Max(0, Min(LevelOne, current_level + delta * NudgeStep))

MiniMixerKnob(s, cc, ccval) ==
    LET p == (cc - 84) - 1
        delta == MixerDelta(ccval)
    IN Return(IF LookupRaises(p) THEN Raise(s)
              ELSE IF ValidChain(p) /\ delta # 0
              THEN set_level(s, chain_at[p], NudgedLevel(s.level[chain_at[p]], delta))
              ELSE s, TRUE)

\* the action sent for every value, the centre value 64 included
MiniZynpotKnob_Unguarded(s, cc, ccval) ==
    Return(send_cuia(s, ZynPot(cc - 85, ZynpotDelta(ccval))), TRUE)

MiniZynpotKnob(s, cc, ccval) ==
    LET delta == ZynpotDelta(ccval)
    IN Return(IF delta # 0 THEN send_cuia(s, ZynPot(cc - 85, delta)) ELSE s, TRUE)

\* knob 5 (CC 89): browse the presets of the active chain's processor
PresetKnob(s, ccval) ==
    LET delta == Direction(ccval)
        new_index == s.preset_index + delta
        wrapped == IF new_index < 0 THEN PresetCount - 1
                   ELSE IF new_index >= PresetCount THEN 0 ELSE new_index
    IN Return(IF delta # 0 /\ PresetCount > 0
              THEN send_cuia(send_cuia(set_preset(s, wrapped), RefreshScreen("control")),
                             RefreshScreen("audio_mixer"))
              ELSE s, TRUE)

\* a window of 0.06 s instead of 0.6 s
Debounced_Tenth(current_time, last) == current_time - last < Debounce \div 10

\* Debounce Guard: current_time - self.last_select_back_time < 0.6
Debounced(current_time, last) == current_time - last < Debounce

\* the clock restarted by every activation, discarded ones too
SelectBackKnob_ClockOnDiscard(s, ccval) ==
    LET a == [s EXCEPT !.last_select_back_time = now]
    IN IF Debounced(now, s.last_select_back_time) THEN Return(a, TRUE)
       ELSE Return(IF ccval = 1 \/ ccval < 64 THEN send_cuia(a, Cuia("BACK"))
                   ELSE IF ccval = 127 \/ ccval > 64 THEN send_cuia(a, ZynSwitch(3, "S"))
                   ELSE a, TRUE)

\* knob 6 (CC 90): SELECT on clockwise / BACK on counter-clockwise
SelectBackKnob(s, ccval) ==
    IF Debounced(now, s.last_select_back_time) THEN Return(s, TRUE)
    ELSE LET a == [s EXCEPT !.last_select_back_time = now]
         IN Return(IF ccval = 1 \/ ccval < 64 THEN send_cuia(a, Cuia("BACK"))
                   ELSE IF ccval = 127 \/ ccval > 64 THEN send_cuia(a, ZynSwitch(3, "S"))
                   ELSE a, TRUE)

\* knobs 7 and 8 (CC 91, 92): arrows
ArrowKnob(s, ccval, ccw, cw) ==
    Return(IF ccval = 1 \/ ccval < 64 THEN send_cuia(s, Cuia(ccw))
           ELSE IF ccval = 127 \/ ccval > 64 THEN send_cuia(s, Cuia(cw))
           ELSE s, TRUE)

MiniKnob(s, ev) ==
    LET cc == ev[2] % 128
        ccval == ev[3] % 128
    IN IF s.knob_bank = 0 THEN MiniMixerKnob(s, cc, ccval)
       ELSE IF s.knob_bank = 1
       THEN IF 84 < cc /\ cc < 89 THEN MiniZynpotKnob(s, cc, ccval)
            ELSE IF cc = 89 THEN PresetKnob(s, ccval)
            ELSE IF cc = 90 THEN SelectBackKnob(s, ccval)
            ELSE IF cc = 91 THEN ArrowKnob(s, ccval, "ARROW_LEFT", "ARROW_RIGHT")
            ELSE IF cc = 92 THEN ArrowKnob(s, ccval, "ARROW_UP", "ARROW_DOWN")
            ELSE Return(s, TRUE)
       ELSE IF s.knob_bank = 2
       THEN Return(write_zynmidi(s, <<176 + ev_chan(ev), cc - 85 + 24, ccval>>), TRUE)
       ELSE Return(s, FALSE)

---------------------------------------------------------------------------
(* midi_event: Encoder Interpreter, pickup and difference modes (pickup) *)

\* the comparison without abs(): any knob position below the level syncs
WithinTolerance_NoAbs(new_level, current_level) == new_level - current_level < Tolerance

\* abs(new_level - current_level) < 0.02
WithinTolerance(new_level, current_level) == Abs(new_level - current_level) < Tolerance

\* knobs 1-6 in bank 0: soft takeover of the mixer level
PickupMixerKnob(s, cc, ccval) ==
    LET p == (cc - 20) - 1
        ch == chain_at[p]
        new_level == ccval * 100
    IN IF LookupRaises(p) THEN Raise(s)
       ELSE IF ~ValidChain(p) THEN s
       ELSE IF cc \notin s.mixer_synced
       THEN IF WithinTolerance(new_level, s.level[ch])
            THEN set_level([s EXCEPT !.mixer_synced = @ \cup {cc}], ch, new_level)
            ELSE s
       ELSE set_level(s, ch, new_level)

\* the difference without the wrap-around correction
WrapDelta_NoWrap(ccval, last_val) == ccval - last_val

\* delta = ccval - last_val, corrected for wrap-around
WrapDelta(ccval, last_val) ==
    LET delta == ccval - last_val
    IN IF delta > 64 THEN delta - 128
       ELSE IF delta < -64 THEN delta + 128
       ELSE delta

\* a knob without last value counts as last seen at 0
PickupZynpotKnob_FromZero(s, cc, ccval) ==
    LET delta == WrapDelta(ccval, IF cc \in DOMAIN s.last_zynpot_values
                                  THEN s.last_zynpot_values[cc] ELSE 0)
        t == [s EXCEPT !.last_zynpot_values =
                          [c \in (DOMAIN @) \cup {cc} |-> IF c = cc THEN ccval ELSE @[c]]]
    IN IF delta # 0 THEN send_cuia(t, ZynPot(cc - 21, delta)) ELSE t

\* knobs 1-4 in bank 1: ZYNPOT by difference to the last value
PickupZynpotKnob(s, cc, ccval) ==
    IF cc \notin DOMAIN s.last_zynpot_values
    THEN [s EXCEPT !.last_zynpot_values =
                      [c \in (DOMAIN @) \cup {cc} |-> IF c = cc THEN ccval ELSE @[c]]]
    ELSE LET delta == WrapDelta(ccval, s.last_zynpot_values[cc])
         IN IF delta # 0
            THEN [send_cuia(s, ZynPot(cc - 21, delta)) EXCEPT !.last_zynpot_values[cc] = ccval]
            ELSE s

PickupKnob(s, ev) ==
    LET cc == ev[2] % 128
        ccval == ev[3] % 128
    IN IF s.knob_bank = 0
       THEN Return(IF 20 < cc /\ cc < 27 THEN PickupMixerKnob(s, cc, ccval) ELSE s, TRUE)
       ELSE IF s.knob_bank = 1
       THEN IF 20 < cc /\ cc < 25 THEN Return(PickupZynpotKnob(s, cc, ccval), TRUE)
            ELSE Return(write_zynmidi(s, <<176 + ev_chan(ev), cc - 25 + 20, ccval>>), TRUE)
       ELSE Return(s, FALSE)

---------------------------------------------------------------------------
(* midi_event *)

PlayButton(s) ==
    Return(send_cuia(s, Cuia(IF s.shift THEN "TOGGLE_MIDI_PLAY" ELSE "TOGGLE_PLAY")), TRUE)
RecordButton(s) ==
    Return(send_cuia(s, Cuia(IF s.shift THEN "TOGGLE_MIDI_RECORD" ELSE "TOGGLE_RECORD")), TRUE)
CommandButton(s, cc) ==
    Return(send_cuia(dev_send(s, DevCC(0, cc, 127)), Cuia(button_commands(variant, cc))), TRUE)

ControlChange(s, ev) ==
    LET ccnum == ev[2] % 128
        ccval == ev[3] % 128
    IN IF ccnum = 51 /\ ccval > 0 THEN BankDown(s)
       ELSE IF ccnum = 52 /\ ccval > 0 THEN BankUp(s)
       ELSE IF ccnum = 63 THEN ShiftButton(s, ccval)
       ELSE IF ccnum = HoldButton(variant) THEN HoldButtonEvent(s, ccnum, ccval)
       ELSE IF IsKnob(variant, ccnum)
            THEN (IF variant = "mini" THEN MiniKnob(s, ev) ELSE PickupKnob(s, ev))
       ELSE IF ccnum \in ZynSwitchCCs THEN ZynSwitchEvent(s, ccnum, ccval)
       ELSE IF ccnum = 115 /\ ccval > 0 THEN PlayButton(s)
       ELSE IF ccnum = 117 /\ ccval > 0 THEN RecordButton(s)
       ELSE IF ccnum \in ButtonCommandCCs(variant) /\ ccval > 0 THEN CommandButton(s, ccnum)
       ELSE IF ccnum = 0 \/ ccval = 0 THEN Return(s, TRUE)
       ELSE Return(s, FALSE)

ProgramChange(s, ev) == Return(select_bank(s, (ev[2] % 128) + 1), TRUE)

\* ev[0], ev[1], ev[2] are read without a look at the length of ev: a message too
\* short for the byte a branch reads ends the call in an IndexError
midi_event(s, ev) ==
    IF Len(ev) < 1 THEN Raise(s)
    ELSE IF evtype(ev) = 9 \/ evtype(ev) = 8
         THEN (IF Len(ev) < 3 THEN Raise(s) ELSE NoteEvent(s, ev))
    ELSE IF evtype(ev) = 11
         THEN (IF Len(ev) < 3 THEN Raise(s) ELSE ControlChange(s, ev))
    ELSE IF evtype(ev) = 12
         THEN (IF Len(ev) < 2 THEN Raise(s) ELSE ProgramChange(s, ev))
    ELSE Return(s, FALSE)

---------------------------------------------------------------------------
(* Construction and the host's initial state *)

\* the routing: two chains on mixer channels 0 and 1, a chain without mixer
\* channel, a chain on a channel out of range, empty positions, and a position
\* whose lookup raises
Routing == [p \in Positions |->
              CASE p = 0 -> 0 [] p = 1 -> 1 [] p = 2 -> NoChan [] p = 3 -> MaxMixerChan
                [] p = 7 -> LookupFails [] OTHER -> NoChain]

MixerChans == 0..(MaxMixerChan - 1)

\* zynmixer's level of a fresh channel, 0.8
DefaultLevel == 80 * 127

NoRun == [cc |-> 0, len |-> 0, start |-> 0]

\* the notes of the 16 pad LEDs that update_pad_leds writes
PadNotes == (96..103) \cup (112..119)

\* no update_pad_leds call is under way on the Timer's thread
NoJob == [pad |-> 0, code |-> -1]

\* __init__ of either class
Constructed(var) ==
    /\ variant = var
    /\ idev_out = "out"
    /\ phase = "constructed"
    /\ shift = FALSE
    /\ press_times = [c \in {} |-> 0]
    /\ knob_bank = (IF var = "mini" THEN 1 ELSE 0)
    /\ last_select_back_time = 0
    /\ mixer_synced = {}
    /\ last_zynpot_values = [c \in {} |-> 0]
    /\ now = StartTime
    /\ chain_at = Routing
    /\ level = [c \in MixerChans |-> DefaultLevel]
    /\ solo = [c \in MixerChans |-> 0]
    /\ mute = [c \in MixerChans |-> 0]
    /\ preset_index = 0
    /\ subscribed = {}
    /\ timer = "none"
    /\ timer_job = NoJob
    /\ queue = <<>>
    /\ indicator = [c \in {51, 52} |-> 0]
    /\ pad_led = [n \in PadNotes |-> 0]
    /\ last_ev = <<>> /\ delivered = NoNotification /\ ret = FALSE /\ raised = FALSE
    /\ cuia = <<>> /\ dev = <<>> /\ zynmidi = <<>>
    /\ host_calls = <<>>
    /\ bank_run = NoRun
    /\ ext_changed = {}
    /\ ev_refreshes = 0

Init == \E var \in {"mini", "pickup"} : Constructed(var)

---------------------------------------------------------------------------
(* Steps *)

\* the bank indicators of the device show the value last written to them
IndicatorAfter(ind, devseq) ==
    [c \in {51, 52} |->
        LET writes == {i \in DOMAIN devseq : devseq[i].msg = "cc" /\ devseq[i].num = c}
        IN IF writes = {} THEN ind[c]
           ELSE devseq[CHOOSE i \in writes : \A j \in writes : j <= i].val]

\* the pad LEDs of the device show the code last written to them
PadLedAfter(led, devseq) ==
    [n \in PadNotes |->
        LET writes == {i \in DOMAIN devseq : devseq[i].msg = "note_on" /\ devseq[i].chan = 0
                                              /\ devseq[i].num = n}
        IN IF writes = {} THEN led[n]
           ELSE devseq[CHOOSE i \in writes : \A j \in writes : j <= i].val]

\* the number of pad LED refreshes among the device writes of a step
PadRefreshes(devseq) ==
    Cardinality({i \in DOMAIN devseq : devseq[i].msg = "note_on" /\ devseq[i].num = 96})

\* the state a method leaves behind
Apply(r) ==
    /\ shift' = r.shift
    /\ press_times' = r.press_times
    /\ knob_bank' = r.knob_bank
    /\ last_select_back_time' = r.last_select_back_time
    /\ mixer_synced' = r.mixer_synced
    /\ last_zynpot_values' = r.last_zynpot_values
    /\ level' = r.level
    /\ solo' = r.solo
    /\ mute' = r.mute
    /\ preset_index' = r.preset_index
    /\ queue' = r.queue
    /\ indicator' = IndicatorAfter(indicator, r.dev)
    /\ pad_led' = PadLedAfter(pad_led, r.dev)
    /\ ret' = r.ret
    /\ raised' = r.raised
    /\ cuia' = r.cuia
    /\ dev' = r.dev
    /\ zynmidi' = r.zynmidi
    /\ host_calls' = r.host_calls

\* channels whose level the calls made in r set
LevelsSet(r) == {r.host_calls[i].chan : i \in {j \in DOMAIN r.host_calls : r.host_calls[j].op = "set_level"}}

\* the run of bank changes after a change from bank `from` made by button cc
RunAfter(run, cc, from) ==
    IF run.cc = cc /\ run.len < 3 THEN [run EXCEPT !.len = @ + 1]
    ELSE [cc |-> cc, len |-> 1, start |-> from]

\* init(): DAW mode on, (mini) encoders to transport mode, button LEDs,
\* (mini) pad LEDs; (pickup) the pad LEDs are left to a Timer, started here
init(s) ==
    LET a == dev_send(s, DevNoteOn(15, 12, 127))
        b == IF variant = "mini" THEN dev_send(a, DevCC(6, 30, 5)) ELSE a
        c == update_button_leds(b)
    IN IF variant = "mini" THEN update_pad_leds(c) ELSE c

\* what init can end up registered for: all four zynsigman signals (mini); the
\* state_manager signals connected before the first connect that fails (pickup)
InitSubscriptions(var) ==
    IF var = "mini" THEN {MiniSignals}
    ELSE {{PickupSignals[i] : i \in 1..n} : n \in 0..Len(PickupSignals)}

DoInit(subs) ==
    /\ phase = "constructed"
    /\ subs \in InitSubscriptions(variant)
    /\ phase' = "running"
    /\ subscribed' = subs
    /\ timer' = (IF variant = "pickup" THEN "pending" ELSE timer)
    /\ \E r \in {init(Cur)} : Apply(r)
    /\ last_ev' = <<>> /\ delivered' = NoNotification
    /\ UNCHANGED <<variant, idev_out, now, chain_at, timer_job, hist_vars>>

\* the outcomes of init without a state_manager signal connected
Unconnected == {MiniSignals, {}}

\* the host hands one event to midi_event
\* the pending notifications when the next event begins: none is of that event
Aged(q) == [i \in DOMAIN q |-> [q[i] EXCEPT !.origin = "other"]]

MidiEvent(ev) ==
    /\ phase = "running"
    /\ \E r \in {midi_event([Cur EXCEPT !.queue = Aged(queue)], ev)} :
          /\ Cardinality(DOMAIN r.press_times) <= MaxHeld
          /\ Len(r.queue) <= MaxQueue
          /\ Apply(r)
          /\ bank_run' = (IF r.knob_bank # knob_bank
                          THEN RunAfter(bank_run, ev[2] % 128, knob_bank) ELSE bank_run)
          /\ ext_changed' = ext_changed \ LevelsSet(r)
          /\ ev_refreshes' = PadRefreshes(r.dev)
    /\ last_ev' = ev /\ delivered' = NoNotification
    /\ UNCHANGED <<variant, idev_out, phase, now, chain_at, subscribed, timer, timer_job>>

\* a refresh that keeps the synced knobs
refresh_KeepsSync(s) == update_pad_leds(s)

\* refresh(): (pickup) forget which knobs have synced; update the pad LEDs
refresh(s) ==
    update_pad_leds(IF variant = "pickup" THEN [s EXCEPT !.mixer_synced = {}] ELSE s)

Refresh ==
    /\ phase = "running"
    /\ \E r \in {refresh(Cur)} : Apply(r)
    /\ last_ev' = <<>> /\ delivered' = NoNotification
    /\ UNCHANGED <<variant, idev_out, phase, now, chain_at, subscribed, timer, timer_job, hist_vars>>

\* a step in which no method of the driver runs
NoCall ==
    /\ last_ev' = <<>> /\ delivered' = NoNotification /\ ret' = FALSE /\ raised' = FALSE
    /\ cuia' = <<>> /\ dev' = <<>> /\ zynmidi' = <<>> /\ host_calls' = <<>>

\* time passes
Tick(d) ==
    /\ now + d <= MaxTime
    /\ now' = now + d
    /\ UNCHANGED <<drv_vars, level, solo, mute, preset_index>>
    /\ NoCall
    /\ UNCHANGED <<variant, idev_out, phase, chain_at, subscribed, timer, timer_job, queue, indicator, pad_led, hist_vars>>

\* the level of channel ch is changed from outside the driver (GUI, another controller)
ExtSetLevel(ch, l) ==
    /\ phase = "running"
    /\ level[ch] # l
    /\ level' = [level EXCEPT ![ch] = l]
    /\ queue' = mixer_signals(queue, "level", "other")
    /\ Len(queue') <= MaxQueue
    /\ UNCHANGED <<drv_vars, solo, mute, preset_index>>
    /\ NoCall
    /\ ext_changed' = ext_changed \cup {ch}
    /\ UNCHANGED <<variant, idev_out, phase, now, chain_at, subscribed, timer, timer_job, indicator, pad_led,
                   bank_run, ev_refreshes>>

\* the host sets solo or mute of channel ch from outside the driver
ExtSetSwitch(param, ch) ==
    /\ phase = "running"
    /\ solo' = (IF param = "solo" THEN [solo EXCEPT ![ch] = 1 - @] ELSE solo)
    /\ mute' = (IF param = "mute" THEN [mute EXCEPT ![ch] = 1 - @] ELSE mute)
    /\ queue' = mixer_signals(queue, param, "other")
    /\ Len(queue') <= MaxQueue
    /\ UNCHANGED <<drv_vars, level, preset_index>>
    /\ NoCall
    /\ UNCHANGED <<variant, idev_out, phase, now, chain_at, subscribed, timer, timer_job, indicator, pad_led, hist_vars>>

\* the host moves the chain at position p to position q and the one at q to p
MoveChain(p, q) ==
    /\ phase = "running"
    /\ chain_at[p] # chain_at[q]
    /\ chain_at' = [chain_at EXCEPT ![p] = chain_at[q], ![q] = chain_at[p]]
    /\ queue' = raise_signal(raise_signal(queue, "SS_MOVE_CHAIN", "", "other"),
                             "chain_manager_changed_signal", "", "other")
    /\ Len(queue') <= MaxQueue
    /\ UNCHANGED <<drv_vars, level, solo, mute, preset_index>>
    /\ NoCall
    /\ UNCHANGED <<variant, idev_out, phase, now, subscribed, timer, timer_job, indicator, pad_led, hist_vars>>

\* the host raises a signal that comes with no change of the state the driver reads:
\* another chain becomes the active one, a screen is shown
HostSignal(sig) ==
    /\ phase = "running"
    /\ sig \in subscribed
    /\ queue' = raise_signal(queue, sig, "", "other")
    /\ Len(queue') <= MaxQueue
    /\ UNCHANGED <<drv_vars, host_vars>>
    /\ NoCall
    /\ UNCHANGED <<variant, idev_out, phase, now, subscribed, timer, timer_job, indicator, pad_led, hist_vars>>

\* a refresh for every mixer parameter
update_mixer_strip_Unfiltered(s, symbol) == update_pad_leds(s)

\* update_mixer_strip(chan, symbol, value)
update_mixer_strip(s, symbol) ==
    IF symbol \in {"mute", "solo"} THEN update_pad_leds(s) ELSE s

\* on_screen_change(screen)
on_screen_change(s) == update_pad_leds(s)

\* every signal registered with refresh()
callback_Refresh(s, n) == refresh(s)

\* the callback registered for the signal of notification n
callback(s, n) ==
    IF n.sig = "SS_ZCTRL_SET_VALUE" THEN update_mixer_strip(s, n.symbol)
    ELSE IF n.sig = "SS_GUI_SHOW_SCREEN" THEN on_screen_change(s)
    ELSE update_pad_leds(s)

\* the oldest pending notification is delivered: its callback runs
Deliver ==
    /\ phase = "running"
    /\ queue # <<>>
    /\ \E r \in {callback([Cur EXCEPT !.queue = Tail(queue)], Head(queue))} :
          /\ Apply(r)
          /\ ev_refreshes' = (IF Head(queue).origin = "event"
                              THEN ev_refreshes + PadRefreshes(r.dev) ELSE ev_refreshes)
    /\ last_ev' = <<>> /\ delivered' = Head(queue)
    /\ UNCHANGED <<variant, idev_out, phase, now, chain_at, subscribed, timer, timer_job, bank_run, ext_changed>>

\* the Timer started by init expires: update_pad_leds runs on the timer's thread,
\* here to its end with no step of another thread in between.
\* The delay of 10 s is longer than the span of time() the model follows, so the
\* expiry is not tied to `now`: it may come between any two steps after init.
\* end() does not cancel the Timer, so it may also come after end().
TimerFires ==
    /\ timer = "pending"
    /\ timer' = "fired"
    /\ \E r \in {update_pad_leds(Cur)} : Apply(r)
    /\ last_ev' = <<>> /\ delivered' = NoNotification
    /\ UNCHANGED <<variant, idev_out, phase, now, chain_at, subscribed, timer_job, hist_vars>>

\* the k-th pad update_pad_leds writes (k in 1..16) and the code it computes for it
PadNoteAt(k) == IF k <= 8 THEN 96 + (k - 1) ELSE 112 + (k - 9)
PadCodeAt(s, k) == IF k <= 8 THEN SoloPadCode(s, k - 1) ELSE MutePadCode(s, k - 9)

\* the same call of the Timer's thread taken pad by pad, so that steps of other
\* threads can come in between: the thread looks up the chain of the next pad and
\* reads its solo / mute state ...
TimerReads ==
    /\ timer \in {"pending", "running"}
    /\ timer_job.code = -1
    /\ timer' = "running"
    /\ timer_job' = [timer_job EXCEPT !.code = PadCodeAt(Cur, timer_job.pad + 1)]
    /\ NoCall
    /\ UNCHANGED <<variant, idev_out, phase, now, subscribed, queue, indicator, pad_led,
                   drv_vars, host_vars, hist_vars>>

\* ... and sends the note-on with the code it has read
TimerWrites ==
    /\ timer = "running"
    /\ timer_job.code # -1
    /\ dev' = <<DevNoteOn(0, PadNoteAt(timer_job.pad + 1), timer_job.code)>>
    /\ pad_led' = PadLedAfter(pad_led, dev')
    /\ timer_job' = (IF timer_job.pad + 1 = 16 THEN NoJob
                     ELSE [pad |-> timer_job.pad + 1, code |-> -1])
    /\ timer' = (IF timer_job.pad + 1 = 16 THEN "fired" ELSE "running")
    /\ last_ev' = <<>> /\ delivered' = NoNotification /\ ret' = FALSE /\ raised' = FALSE
    /\ cuia' = <<>> /\ zynmidi' = <<>> /\ host_calls' = <<>>
    /\ UNCHANGED <<variant, idev_out, phase, now, subscribed, queue, indicator,
                   drv_vars, host_vars, hist_vars>>

\* end(): unregister (mini) / disconnect (pickup) the callbacks, DAW mode off
end(s) == dev_send(s, DevNoteOn(15, 12, 0))

\* the host calls end(); the callbacks it removes are no longer called, so what is
\* still queued stays undelivered
End ==
    /\ phase = "running"
    /\ phase' = "ended"
    /\ subscribed' = {}
    /\ \E r \in {end(Cur)} : Apply(r)
    /\ last_ev' = <<>> /\ delivered' = NoNotification
    /\ UNCHANGED <<variant, idev_out, now, chain_at, timer, timer_job, hist_vars>>

---------------------------------------------------------------------------
(* Steps of midi_event, as seen from the state before and the state after *)

\* the step handles control change cc with a value > 0
PressStep(cc) == last_ev' # <<>> /\ evtype(last_ev') = 11 /\ last_ev'[2] = cc /\ last_ev'[3] > 0
\* the step handles control change cc with value 0
ReleaseStep(cc) == last_ev' # <<>> /\ evtype(last_ev') = 11 /\ last_ev'[2] = cc /\ last_ev'[3] = 0
\* the step handles a control change of controller cc
CCStep(cc) == last_ev' # <<>> /\ evtype(last_ev') = 11 /\ last_ev'[2] = cc
\* the step is a call of refresh()
RefreshStep ==
    /\ phase = "running" /\ timer' = timer /\ timer_job' = timer_job
    /\ last_ev' = <<>> /\ delivered' = NoNotification /\ PadRefreshes(dev') > 0

---------------------------------------------------------------------------
(* Bank State Machine: bank buttons, shift, and the knobs whose tracking a *)
(* bank change is to reset                                                 *)

BankEvents ==
    {CC(51, 127), CC(51, 0), CC(52, 127), CC(52, 0), CC(63, 127), CC(63, 0)}
    \cup {CC(21, v) : v \in {60, 101}}

NextBankMachine ==
    \/ \E subs \in Unconnected : DoInit(subs)
    \/ \E ev \in BankEvents : MidiEvent(ev)
    \/ Refresh

SpecBank == Init /\ [][NextBankMachine]_vars

\* C1: without shift, CC 51 with value > 0 moves the bank to (knob_bank - 1) mod 3 and
\* CC 52 to (knob_bank + 1) mod 3, in both variants; so bank 0 goes down to 2, bank 2
\* goes up to 0, and three changes in a row by one button end in the bank they began in.
C1_BankCycling ==
    [][ /\ (PressStep(51) /\ ~shift) =>
              /\ knob_bank' = (knob_bank - 1) % 3
              /\ (knob_bank = 0 => knob_bank' = 2)
        /\ (PressStep(52) /\ ~shift) =>
              /\ knob_bank' = (knob_bank + 1) % 3
              /\ (knob_bank = 2 => knob_bank' = 0)
        /\ (bank_run'.len = 3 => knob_bank' = bank_run'.start) ]_vars

\* three bank-down presses in a row have been handled, the first of them in bank 0
C1_Witness ==
    /\ last_ev = CC(51, 127)
    /\ bank_run = [cc |-> 51, len |-> 3, start |-> 0]
    /\ knob_bank = 0

\* C2: with shift held, CC 51 / CC 52 with value > 0 emits exactly one ARROW_UP /
\* ARROW_DOWN action, leaves the bank, the takeover sync set and the encoder memory as
\* they were and writes nothing to the device (so no bank indicator either).
C2_ShiftedBankButtons ==
    [][ /\ (PressStep(51) /\ shift) => cuia' = <<Cuia("ARROW_UP")>>
        /\ (PressStep(52) /\ shift) => cuia' = <<Cuia("ARROW_DOWN")>>
        /\ ((PressStep(51) \/ PressStep(52)) /\ shift) =>
              /\ knob_bank' = knob_bank
              /\ mixer_synced' = mixer_synced
              /\ last_zynpot_values' = last_zynpot_values
              /\ dev' = <<>> ]_vars

\* a shifted bank-down press was handled while a knob was synced and another tracked
C2_Witness ==
    /\ last_ev = CC(51, 127)
    /\ shift
    /\ cuia = <<Cuia("ARROW_UP")>>
    /\ mixer_synced # {}
    /\ DOMAIN last_zynpot_values # {}

\* C3: in the pickup variant every bank change leaves mixer_synced and
\* last_zynpot_values empty.
C3_BankChangeClearsTracking ==
    [][ (variant = "pickup" /\ (PressStep(51) \/ PressStep(52)) /\ ~shift) =>
            /\ mixer_synced' = {}
            /\ DOMAIN last_zynpot_values' = {} ]_vars

---------------------------------------------------------------------------
(* Soft takeover (pickup variant, bank 0)                                  *)

\* levels the host sets from outside the driver: 0.0, 0.5, 1.0
ExtLevels == {0, 50 * 127, LevelOne}

\* knob values on both sides of the band around each of 0.0, 0.5, 0.8 and 1.0
PickupValues == {0, 2, 3, 60, 61, 64, 66, 67, 99, 100, 104, 105, 124, 125, 127}

\* knob 1 (a chain on mixer channel 0); knobs 3, 4, 5 and 7
\* (chain without mixer channel, channel out of range, no chain, unused knob)
PickupKnobEvents ==
    {CC(21, v) : v \in PickupValues} \cup {CC(c, 64) : c \in {23, 24, 25, 27}}

NextPickup ==
    \/ \E subs \in Unconnected : DoInit(subs)
    \/ \E ev \in PickupKnobEvents : knob_bank = 0 /\ MidiEvent(ev)
    \/ \E ev \in {CC(51, 127), CC(52, 127)} : MidiEvent(ev)
    \/ Refresh
    \/ \E l \in ExtLevels : ExtSetLevel(0, l)

SpecPickup == Constructed("pickup") /\ [][NextPickup]_vars

\* the step handles, in bank 0 of the pickup variant, a value of mixer knob cc whose
\* position holds a chain with a valid mixer channel
MixerKnobStep(cc) == variant = "pickup" /\ knob_bank = 0 /\ CCStep(cc) /\ ValidChain(cc - 21)

\* C4: an unsynced bank 0 mixer knob with a valid chain: a value v with
\* |v/127 - L| >= 0.02 (L the level of its channel) mutates nothing and leaves the knob
\* unsynced; a value with |v/127 - L| < 0.02 marks it synced and sets the level to v/127.
C4_UnsyncedKnob ==
    [][ \A cc \in 21..26 :
          (MixerKnobStep(cc) /\ cc \notin mixer_synced) =>
              LET ch == chain_at[cc - 21]
                  v == last_ev'[3]
              IN IF Abs(100 * v - level[ch]) >= 2 * 127
                 THEN /\ host_calls' = <<>>
                      /\ level' = level
                      /\ cc \notin mixer_synced'
                 ELSE /\ cc \in mixer_synced'
                      /\ host_calls' = <<HostCall("set_level", ch, 100 * v)>>
                      /\ level'[ch] = 100 * v ]_vars

\* knob 1 has just synced, at a value that differs from the level it found
C4_Witness ==
    /\ last_ev # <<>> /\ last_ev[2] = 21
    /\ 21 \in mixer_synced
    /\ host_calls = <<HostCall("set_level", 0, 100 * last_ev[3])>>
    /\ level[0] = 6100

\* knob 1 was turned, unsynced, to a value below the band: nothing was written
C4_WitnessOutside ==
    /\ last_ev = CC(21, 3)
    /\ knob_bank = 0
    /\ 21 \notin mixer_synced
    /\ level[0] = DefaultLevel
    /\ host_calls = <<>>

\* C5: when the level of a channel was changed from outside since the driver last
\* wrote it, the next bank 0 value of its knob writes nothing or writes a level within
\* 0.02 of the level it finds.
C5_NoJumpAfterExternalChange ==
    [][ \A cc \in 21..26 :
          (MixerKnobStep(cc) /\ chain_at[cc - 21] \in ext_changed) =>
              \/ host_calls' = <<>>
              \/ Abs(level'[chain_at[cc - 21]] - level[chain_at[cc - 21]]) < 2 * 127 ]_vars

\* C21: in the pickup variant a synced bank 0 mixer knob with a valid chain sets the
\* level of its channel to v/127 for every value v, whatever the level is, and stays
\* synced; every bank change and every refresh() call, in any bank, leaves the sync set
\* empty and no other step removes a knob from it; an unsynced knob writes nothing
\* until a value of it lies within 0.02 of the level.
C21_SyncedUntilCleared ==
    [][ /\ \A cc \in 21..28 :
              /\ (MixerKnobStep(cc) /\ cc \in mixer_synced) =>
                    /\ host_calls' = <<HostCall("set_level", chain_at[cc - 21], 100 * last_ev'[3])>>
                    /\ level'[chain_at[cc - 21]] = 100 * last_ev'[3]
                    /\ cc \in mixer_synced'
              /\ (MixerKnobStep(cc) /\ cc \notin mixer_synced
                     /\ Abs(100 * last_ev'[3] - level[chain_at[cc - 21]]) >= 2 * 127) =>
                    /\ host_calls' = <<>>
                    /\ level' = level
        /\ (variant = "pickup" /\ (knob_bank' # knob_bank \/ RefreshStep)) =>
              mixer_synced' = {}
        /\ (variant = "pickup" /\ knob_bank' = knob_bank /\ ~RefreshStep) =>
              mixer_synced \subseteq mixer_synced' ]_vars

\* knob 1, synced, has set the level of channel 0 to 3/127
C21_Witness ==
    /\ variant = "pickup"
    /\ last_ev = CC(21, 3)
    /\ 21 \in mixer_synced
    /\ host_calls = <<HostCall("set_level", 0, 300)>>
    /\ level[0] = 300

---------------------------------------------------------------------------
(* Transport mode encoders (mini variant, banks 0 and 1)                   *)

\* knob 1 over the whole 7 bit range, knob 4 (ZYNPOT 3; its position holds a chain on
\* an invalid channel) at some values
TransportKnobEvents ==
    {CC(85, v) : v \in 0..127} \cup {CC(88, v) : v \in {0, 1, 64, 100, 127}}

\* knobs and bank buttons are used while channel 0 is at a level the host has set
\* and the notification of the last change of the level has been delivered
BaseLevels == ExtLevels \cup {DefaultLevel}

NextTransport ==
    \/ \E subs \in Unconnected : DoInit(subs)
    \/ \E ev \in TransportKnobEvents : level[0] \in BaseLevels /\ queue = <<>> /\ MidiEvent(ev)
    \/ \E ev \in {CC(51, 127), CC(52, 127)} : level[0] \in BaseLevels /\ queue = <<>> /\ MidiEvent(ev)
    \/ \E l \in ExtLevels : queue = <<>> /\ ExtSetLevel(0, l)
    \/ Deliver

SpecTransport == Constructed("mini") /\ [][NextTransport]_vars

\* what a step that handles value v of knob cc (CC 85..92) of the mini variant does
\* when the conversion yields delta d: in bank 1 (knobs 1-4) one ZYNPOT action with d,
\* in bank 0 (valid chain) one set_level of the nudged, clamped level; nothing for d = 0
TransportStepWith(cc, d) ==
    /\ (knob_bank = 1 /\ cc <= 88) =>
          /\ cuia' = (IF d = 0 THEN <<>> ELSE <<ZynPot(cc - 85, d)>>)
          /\ host_calls' = <<>>
    /\ (knob_bank = 0 /\ ValidChain(cc - 85)) =>
          LET ch == chain_at[cc - 85]
              to == level[ch] + d * 127
              clamped == IF to < 0 THEN 0 ELSE IF to > 12700 THEN 12700 ELSE to
          IN /\ host_calls' = (IF d = 0 THEN <<>> ELSE <<HostCall("set_level", ch, clamped)>>)
             /\ cuia' = <<>>
             /\ (d = 0 => level' = level)

\* C6 as claimed: the delta is -(64 - v) for every v in 1..63, v - 64 for every v in
\* 65..127 and zero (no action, no mutation) for v = 64.
C6_TransportDeltaAsClaimed ==
    [][ \A cc \in 85..92 :
          (variant = "mini" /\ CCStep(cc) /\ last_ev'[3] >= 1) =>
              TransportStepWith(cc, last_ev'[3] - 64) ]_vars

\* C6, amended: the delta is -(64 - v) for v in 2..63 and v - 64 for v in 65..126, zero
\* (no action, no mutation) for v = 64, and the minimum step for the two end values:
\* -1 for v = 1 and +1 for v = 127.
C6_TransportDelta ==
    [][ \A cc \in 85..92 :
          (variant = "mini" /\ CCStep(cc) /\ last_ev'[3] >= 1) =>
              LET v == last_ev'[3]
              IN TransportStepWith(cc, IF v = 1 THEN -1 ELSE IF v = 127 THEN 1 ELSE v - 64) ]_vars

\* value 1 of knob 1 nudged the level of channel 0 down by one step of 0.01
C6_Witness ==
    /\ variant = "mini"
    /\ last_ev = CC(85, 1)
    /\ knob_bank = 0
    /\ host_calls = <<HostCall("set_level", 0, DefaultLevel - 127)>>

---------------------------------------------------------------------------
(* ZYNPOT by difference (pickup variant, bank 1)                           *)

\* knob 2 (ZYNPOT 1) over the whole 7 bit range
DifferenceKnobEvents == {CC(22, v) : v \in 0..127}

NextDifference ==
    \/ \E subs \in Unconnected : DoInit(subs)
    \/ knob_bank = 0 /\ MidiEvent(CC(52, 127))
    \/ \E ev \in DifferenceKnobEvents : knob_bank = 1 /\ MidiEvent(ev)

SpecDifference == Constructed("pickup") /\ [][NextDifference]_vars

\* the step handles, in bank 1 of the pickup variant, a value of ZYNPOT knob cc that
\* has a last value
SecondObservation(cc) ==
    variant = "pickup" /\ knob_bank = 1 /\ CCStep(cc) /\ cc \in DOMAIN last_zynpot_values

\* the step acts on delta d for knob cc: one ZYNPOT action if d is not 0, none if it is
ZynpotStepWith(cc, d) == cuia' = (IF d = 0 THEN <<>> ELSE <<ZynPot(cc - 21, d)>>)

\* C7 as claimed: the delta of observation b after observation a is
\* ((b - a + 64) mod 128) - 64 for every pair (a, b).
C7_WrapDeltaAsClaimed ==
    [][ \A cc \in 21..24 :
          SecondObservation(cc) =>
              LET a == last_zynpot_values[cc]
                  b == last_ev'[3]
              IN ZynpotStepWith(cc, ((b - a + 64) % 128) - 64) ]_vars

\* C7, amended: the last value of a knob is the value observed last, and the delta of
\* observation b after observation a is ((b - a + 64) mod 128) - 64 for every pair
\* (a, b) with b - a # 64, and +64 where b - a = 64; so a=0, b=127 gives -1 and
\* a=127, b=0 gives +1.
C7_WrapDelta ==
    [][ \A cc \in 21..24 :
          /\ (variant = "pickup" /\ knob_bank = 1 /\ CCStep(cc)) =>
                last_zynpot_values'[cc] = last_ev'[3]
          /\ SecondObservation(cc) =>
                LET a == last_zynpot_values[cc]
                    b == last_ev'[3]
                IN /\ ZynpotStepWith(cc, IF b - a = 64 THEN 64 ELSE ((b - a + 64) % 128) - 64)
                   /\ (a = 0 /\ b = 127) => ZynpotStepWith(cc, -1)
                   /\ (a = 127 /\ b = 0) => ZynpotStepWith(cc, 1) ]_vars

\* knob 2 went from 0 to 127: one step down
C7_Witness ==
    /\ variant = "pickup"
    /\ last_ev = CC(22, 127)
    /\ cuia = <<ZynPot(1, -1)>>
    /\ last_zynpot_values[22] = 127

\* C22: in bank 1 of the pickup variant the first observation of a ZYNPOT knob
\* (CC 21-24) after the encoder memory was emptied stores its value and emits no
\* ZYNPOT action; every later observation emits exactly one ZYNPOT action if the
\* difference to the last value, corrected for wrap-around, is not zero and none if it
\* is; after either the last value is the value just observed.
C22_FirstThenDifferences ==
    [][ \A cc \in 21..24 :
          (variant = "pickup" /\ knob_bank = 1 /\ CCStep(cc)) =>
              LET v == last_ev'[3]
              IN /\ cc \in DOMAIN last_zynpot_values' /\ last_zynpot_values'[cc] = v
                 /\ host_calls' = <<>> /\ zynmidi' = <<>> /\ dev' = <<>>
                 /\ IF cc \notin DOMAIN last_zynpot_values
                    THEN cuia' = <<>>
                    ELSE LET raw == v - last_zynpot_values[cc]
                             d == IF raw > 64 THEN raw - 128
                                  ELSE IF raw < -64 THEN raw + 128 ELSE raw
                         IN /\ Len(cuia') = (IF d # 0 THEN 1 ELSE 0)
                            /\ d # 0 => cuia'[1] = ZynPot(cc - 21, d) ]_vars

\* knob 2 was seen at 64, for the first time or again: its value is stored and no
\* action was emitted
C22_Witness ==
    /\ variant = "pickup"
    /\ knob_bank = 1
    /\ last_ev = CC(22, 64)
    /\ last_zynpot_values[22] = 64
    /\ cuia = <<>>

---------------------------------------------------------------------------
(* Hold Classifier (both variants)                                         *)

\* the clock advances by 0.50 s or 0.99 s: presses and releases are 0, 0.01, 0.49,
\* 0.50, 0.99, 1.00, 1.49 or 1.50 s apart
HoldSteps == {50, 99}

\* presses and releases of the five hold switches of the variant, and shift
HoldEvents(var) ==
    {CC(c, v) : c \in HoldCCs(var), v \in {0, 127}} \cup {CC(63, 127), CC(63, 0)}

NextHold ==
    \/ \E subs \in Unconnected : DoInit(subs)
    \/ \E ev \in HoldEvents(variant) : MidiEvent(ev)
    \/ \E d \in HoldSteps : Tick(d)

SpecHold == Init /\ [][NextHold]_vars

\* the ZYNSWITCH index of hold switch cc
SwitchIndexOf(cc) == CASE cc = 74 -> 0 [] cc = 75 -> 1 [] cc = 76 -> 3 [] cc = 77 -> 2
                       [] cc \in {104, 105} -> 3

C8_WitnessBold ==
    /\ last_ev = CC(HoldButton(variant), 0)
    /\ now = StartTime + 50
    /\ cuia = <<ZynSwitch(3, "B")>>
    /\ DOMAIN press_times = {}

\* C9: in every driver state, shift held included, a release of a hold-classified
\* switch that has an entry in press_times emits exactly one ZYNSWITCH action and
\* removes the entry.
C9_ReleaseEmitsOnce ==
    [][ \A cc \in HoldCCs(variant) :
          (ReleaseStep(cc) /\ cc \in DOMAIN press_times) =>
              /\ Len(cuia') = 1
              /\ cuia'[1].name = "ZYNSWITCH"
              /\ cc \notin DOMAIN press_times' ]_vars

\* C23: in both variants the release (value 0) of a hold-classified switch that has
\* no entry in press_times does nothing: no host action, no device write, every field
\* of the driver as before; the event is consumed. A second release after a
\* classified one is such a release.
C23_UnregisteredRelease ==
    [][ \A cc \in HoldCCs(variant) :
          (ReleaseStep(cc) /\ cc \notin DOMAIN press_times) =>
              /\ ret' /\ ~raised'
              /\ cuia' = <<>> /\ host_calls' = <<>> /\ zynmidi' = <<>> /\ dev' = <<>>
              /\ UNCHANGED drv_vars ]_vars

\* CC 74 was released without a registered press while CC 75 is held down and shift
\* is on
C23_Witness ==
    /\ last_ev = CC(74, 0)
    /\ ret
    /\ cuia = <<>>
    /\ shift
    /\ DOMAIN press_times = {75}

\* C30: while shift is held CC 76 emits exactly one TEMPO action for a value > 0 and
\* nothing for value 0, never a ZYNSWITCH action, and leaves press_times as it was;
\* without shift CC 76 is a hold-classified switch: the press is registered and the
\* release of a registered press emits ZYNSWITCH with index 3.
C30_ShiftedMetronome ==
    [][ CCStep(76) =>
          LET v == last_ev'[3]
          IN /\ ret' /\ host_calls' = <<>> /\ zynmidi' = <<>> /\ dev' = <<>>
             /\ IF shift
                THEN /\ cuia' = (IF v > 0 THEN <<Cuia("TEMPO")>> ELSE <<>>)
                     /\ press_times' = press_times
                ELSE /\ \A i \in DOMAIN cuia' : cuia'[i].name # "TEMPO"
                     /\ v > 0 => /\ cuia' = <<>>
                                 /\ 76 \in DOMAIN press_times' /\ press_times'[76] = now
                     /\ (v = 0 /\ 76 \in DOMAIN press_times) =>
                           /\ Len(cuia') = 1
                           /\ cuia'[1].name = "ZYNSWITCH" /\ cuia'[1].idx = 3
                           /\ 76 \notin DOMAIN press_times' ]_vars

\* CC 76 was pressed with shift held while CC 74 is held down: one TEMPO action, no
\* entry for CC 76
C30_Witness ==
    /\ last_ev = CC(76, 127)
    /\ shift
    /\ cuia = <<Cuia("TEMPO")>>
    /\ DOMAIN press_times = {74}

\* CC 76, pressed without shift, was released with shift held: nothing emitted, the
\* entry is still there
C30_WitnessRelease ==
    /\ last_ev = CC(76, 0)
    /\ shift
    /\ cuia = <<>>
    /\ 76 \in DOMAIN press_times

\* C31: after the release (value 0) of a hold-classified switch has been handled,
\* press_times holds no entry for that switch, in every driver state; so the entry a
\* later release classifies is of a press made after that release.
C31_ReleaseClearsEntry ==
    [][ \A cc \in HoldCCs(variant) :
          ReleaseStep(cc) => cc \notin DOMAIN press_times' ]_vars

\* the clock advances by 0.75 s
RegistrySteps == {75}

\* presses and releases of CC 74 and CC 77, shift, a bank change
RegistryEvents ==
    {CC(c, v) : c \in {74, 77}, v \in {0, 127}}
    \cup {CC(63, 127), CC(63, 1), CC(63, 0), CC(52, 127)}

\* two switches are held and released while time passes, the bank and shift change,
\* refresh() is called, the Timer of init expires, and the level of channel 0 changes
\* from outside and the notification of it is delivered
NextRegistry ==
    \/ \E subs \in InitSubscriptions(variant) : DoInit(subs)
    \/ \E ev \in RegistryEvents : MidiEvent(ev)
    \/ \E d \in RegistrySteps : Tick(d)
    \/ Refresh
    \/ TimerFires
    \/ queue = <<>> /\ ExtSetLevel(0, 50 * 127)
    \/ Deliver

SpecRegistry == Init /\ [][NextRegistry]_vars

\* C24: a registered press stays in press_times, with its time, until an event of the
\* same switch is handled, and is removed only by a release of that switch: passing
\* time, bank and shift changes, refresh(), notifications and the presses and releases
\* of other switches leave it alone; so of two switches held at once each is
\* classified, at its release, by the time since its own press.
C24_EntryStaysUntilOwnRelease ==
    [][ \A cc \in HoldCCs(variant) :
          cc \in DOMAIN press_times =>
              /\ ~ReleaseStep(cc) => cc \in DOMAIN press_times'
              /\ ~CCStep(cc) => /\ cc \in DOMAIN press_times'
                                /\ press_times'[cc] = press_times[cc]
              /\ (ReleaseStep(cc) /\ cuia' # <<>>) =>
                    LET d == now - press_times[cc]
                    IN cuia' = <<ZynSwitch(SwitchIndexOf(cc),
                                           IF d < 50 THEN "S" ELSE IF d < 150 THEN "B" ELSE "L")>> ]_vars

\* CC 74, pressed at the start, was released 1.50 s later (long) while CC 77, pressed
\* 0.75 s after the start, is still held
C24_Witness ==
    /\ last_ev = CC(74, 0)
    /\ now = StartTime + 150
    /\ cuia = <<ZynSwitch(0, "L")>>
    /\ DOMAIN press_times = {77}
    /\ press_times[77] = StartTime + 75

---------------------------------------------------------------------------
(* Debounce Guard (mini variant, bank 1)                                   *)

\* the clock advances by 0.59 s or 0.60 s
DebounceSteps == {59, 60}

\* the SELECT/BACK knob in both directions and at rest, the arrow knob beside it
\* and shift
DebounceEvents ==
    {CC(90, v) : v \in {0, 1, 64, 65, 127}} \cup {CC(91, 1), CC(63, 127), CC(63, 0)}

NextDebounce ==
    \/ \E subs \in Unconnected : DoInit(subs)
    \/ \E ev \in DebounceEvents : MidiEvent(ev)
    \/ \E ev \in {CC(51, 127), CC(52, 127)} : MidiEvent(ev)
    \/ \E d \in DebounceSteps : Tick(d)

SpecDebounce == Constructed("mini") /\ [][NextDebounce]_vars

\* the step handles an activation of the SELECT/BACK knob in bank 1 of the mini variant
SelectBackStep == variant = "mini" /\ knob_bank = 1 /\ CCStep(90)

\* C10: in bank 1 of the mini variant an activation of CC 90 less than 0.6 s after the
\* last accepted one is consumed, produces no host action and leaves
\* last_select_back_time as it was; last_select_back_time changes only in a step that
\* accepts an activation, which sets it to the current time, and an activation 0.6 s
\* or more after the last accepted one is accepted whatever was discarded in between.
C10_Debounce ==
    [][ /\ (SelectBackStep /\ now - last_select_back_time < 60) =>
              /\ ret' = TRUE
              /\ cuia' = <<>> /\ host_calls' = <<>> /\ zynmidi' = <<>> /\ dev' = <<>>
              /\ last_select_back_time' = last_select_back_time
        /\ (SelectBackStep /\ now - last_select_back_time >= 60) =>
              last_select_back_time' = now
        /\ (last_select_back_time' # last_select_back_time) =>
              /\ SelectBackStep
              /\ now - last_select_back_time >= 60
              /\ last_select_back_time' = now ]_vars

\* an activation was accepted 0.59 s after the start and the next one, 0.59 s after
\* it, was discarded: the clock still shows the accepted one
C10_Witness ==
    /\ last_ev = CC(90, 127)
    /\ knob_bank = 1
    /\ cuia = <<>>
    /\ last_select_back_time = StartTime + 59
    /\ now = StartTime + 118

---------------------------------------------------------------------------
(* Debounce Guard: activations 400 ms and 700 ms apart                     *)

\* the clock advances by 0.40 s or 0.70 s
GapSteps == {40, 70}

\* the SELECT/BACK knob at values of every branch of the direction test
GapEvents == {CC(90, v) : v \in {0, 1, 2, 32, 63, 64, 65, 96, 126, 127}}

NextGap ==
    \/ \E subs \in Unconnected : DoInit(subs)
    \/ \E ev \in GapEvents : MidiEvent(ev)
    \/ \E d \in GapSteps : Tick(d)

SpecGap == Constructed("mini") /\ [][NextGap]_vars

\* the step made no host action / exactly the one host action c
NoHostAction == cuia' = <<>> /\ host_calls' = <<>> /\ zynmidi' = <<>>
OneHostAction(c) == cuia' = <<c>> /\ host_calls' = <<>> /\ zynmidi' = <<>>
SelectOrBack ==
    \/ OneHostAction([name |-> "BACK", idx |-> -1, delta |-> 0, type |-> ""])
    \/ OneHostAction([name |-> "ZYNSWITCH", idx |-> 3, delta |-> 0, type |-> "S"])

\* C11 as claimed: in bank 1 of the mini variant, for every value 0..127 of CC 90: an
\* activation 400 ms after an accepted one produces no host action, one 700 ms after
\* an accepted one produces a host action, and every accepted activation produces
\* exactly one host action, BACK or ZYNSWITCH [3, 'S'].
C11_EveryAcceptedActs ==
    [][ SelectBackStep =>
          /\ (last_select_back_time > 0 /\ now - last_select_back_time = 40) => NoHostAction
          /\ (last_select_back_time > 0 /\ now - last_select_back_time = 70) => SelectOrBack
          /\ (now - last_select_back_time >= 60) => SelectOrBack ]_vars

\* C11, amended: an activation 400 ms after an accepted one produces no host action;
\* an accepted activation (700 ms after the last accepted one, for instance) with a
\* value below 64 produces exactly one BACK, with a value above 64 exactly one
\* ZYNSWITCH [3, 'S'], and with value 64 (no movement) is accepted, restarts the
\* window and produces no host action.
C11_AcceptedMovementActs ==
    [][ SelectBackStep =>
          LET v == last_ev'[3]
              Acts == IF v < 64
                      THEN OneHostAction([name |-> "BACK", idx |-> -1, delta |-> 0, type |-> ""])
                      ELSE IF v > 64
                      THEN OneHostAction([name |-> "ZYNSWITCH", idx |-> 3, delta |-> 0, type |-> "S"])
                      ELSE NoHostAction /\ last_select_back_time' = now
          IN /\ (last_select_back_time > 0 /\ now - last_select_back_time = 40) => NoHostAction
             /\ (last_select_back_time > 0 /\ now - last_select_back_time = 70) => Acts
             /\ (now - last_select_back_time >= 60) => Acts ]_vars

\* an activation was accepted at the start and the next one, 400 ms later, produced
\* nothing
C11_Witness ==
    /\ last_ev = CC(90, 127)
    /\ knob_bank = 1
    /\ last_select_back_time = StartTime
    /\ now = StartTime + 40
    /\ cuia = <<>>

---------------------------------------------------------------------------
(* Pads and LED Reflector (both variants)                                  *)

\* solo and mute pads of positions 0 (a chain on mixer channel 0), 2 (a chain without
\* mixer channel) and 3 (a channel out of range); a pad released; a pad between the rows
PadEvents ==
    {NoteOn(96, 100), NoteOn(112, 1), NoteOn(98, 100), NoteOn(115, 127)}
    \cup {NoteOn(96, 0), NoteOff(112, 64), NoteOn(104, 100)}

\* the signals the host raises without a change of the mixer or the routing
PlainSignals == {"SS_SET_ACTIVE_CHAIN", "SS_GUI_SHOW_SCREEN"}

NextReflector ==
    \/ \E subs \in InitSubscriptions(variant) : DoInit(subs)
    \/ \E ev \in PadEvents : MidiEvent(ev)
    \/ Deliver
    \/ Refresh
    \/ \E param \in {"solo", "mute"} : ExtSetSwitch(param, 0)
    \/ \E l \in {50 * 127} : ExtSetLevel(0, l)
    \/ MoveChain(0, 2)
    \/ \E sig \in PlainSignals : HostSignal(sig)

SpecReflector == Init /\ [][NextReflector]_vars

\* the step handles a note-on with velocity > 0 of pad note
PadStep(note) ==
    /\ Len(last_ev') = 3 /\ evtype(last_ev') = 9
    /\ last_ev'[2] = note /\ last_ev'[3] > 0

\* the step delivers a notification that a call made for the last event raised
DeliveryForEvent(symbols) ==
    /\ delivered' # NoNotification
    /\ delivered'.origin = "event"
    /\ delivered'.symbol \in symbols

\* C12: a note-on with velocity > 0 on solo pad 96+p whose position holds a chain with
\* a valid mixer channel flips that channel's solo state, the mute row 112+p the mute
\* state, and the event results in exactly one pad LED refresh: one in its own step and
\* none when the notification that the mutation raised is delivered.
C12_PadFlipsAndRefreshesOnce ==
    [][ /\ \A p \in Positions :
              /\ (PadStep(96 + p) /\ ValidChain(p)) =>
                    /\ (solo'[chain_at[p]] # 0) = ~(solo[chain_at[p]] # 0)
                    /\ ev_refreshes' = 1
              /\ (PadStep(112 + p) /\ ValidChain(p)) =>
                    /\ (mute'[chain_at[p]] # 0) = ~(mute[chain_at[p]] # 0)
                    /\ ev_refreshes' = 1
        /\ DeliveryForEvent({"solo", "mute"}) => ev_refreshes' = ev_refreshes ]_vars

\* the pad LED writes among the device writes of a step
PadWrites(devseq) ==
    SelectSeq(devseq, LAMBDA m : m.msg = "note_on" /\ m.chan = 0 /\ m.num >= 96)

\* position p holds a chain with a mixer channel below 17
Usable(routing, p) == routing[p] >= 0 /\ routing[p] < 17

\* the codes of the variant: solo row active / dim, mute row muted / unmuted
ActiveCode == IF variant = "mini" THEN 14 ELSE 5
DimCode == IF variant = "mini" THEN 118 ELSE 10
MutedCode == 5
UnmutedCode == 64

\* what a refresh has to write, given the routing and the mixer state it reads
ExpectedPadWrites(routing, so, mu) ==
    [i \in 1..16 |->
        LET p == (i - 1) % 8
        IN IF i <= 8
           THEN [msg |-> "note_on", chan |-> 0, num |-> 96 + p,
                 val |-> IF ~Usable(routing, p) THEN 0
                         ELSE IF so[routing[p]] # 0 THEN ActiveCode ELSE DimCode]
           ELSE [msg |-> "note_on", chan |-> 0, num |-> 112 + p,
                 val |-> IF ~Usable(routing, p) THEN 0
                         ELSE IF mu[routing[p]] # 0 THEN MutedCode ELSE UnmutedCode]]

\* C16: every pad LED refresh writes, for each position p in 0..7, solo pad 96+p and
\* mute pad 112+p: off (0) if there is no chain at p or its mixer channel is absent or
\* >= 17, else the active / dim code by the channel's solo state and the muted /
\* unmuted code by its mute state, as the routing and the mixer are at that refresh,
\* whatever an earlier refresh wrote; the two codes of a row are distinct and not 0.
C16_PadCodes ==
    [][ /\ PadWrites(dev') \in {<<>>, ExpectedPadWrites(chain_at', solo', mute')}
        /\ \A i \in DOMAIN PadWrites(dev') :
              Usable(chain_at', (i - 1) % 8) => PadWrites(dev')[i].val # 0
        /\ \A i, j \in DOMAIN PadWrites(dev') :
              ( /\ (i <= 8) = (j <= 8)
                /\ Usable(chain_at', (i - 1) % 8) /\ Usable(chain_at', (j - 1) % 8) ) =>
                  LET st == IF i <= 8 THEN solo' ELSE mute'
                  IN (PadWrites(dev')[i].val = PadWrites(dev')[j].val)
                       <=> ((st[chain_at'[(i - 1) % 8]] # 0) = (st[chain_at'[(j - 1) % 8]] # 0)) ]_vars

\* a refresh after the chain of position 0, soloed and muted, has moved to position 2:
\* pad 96 is off now, pads 98 and 114 show the active and the muted code, and the
\* unsoloed, unmuted chain at position 1 the dim and the unmuted code
C16_Witness ==
    /\ chain_at[2] = 0 /\ chain_at[0] = NoChan
    /\ solo[0] = 1 /\ mute[0] = 1
    /\ Len(dev) = 16
    /\ dev[1].num = 96 /\ dev[1].val = 0
    /\ dev[3].num = 98 /\ dev[3].val = ActiveCode
    /\ dev[11].num = 114 /\ dev[11].val = MutedCode
    /\ dev[2].val = DimCode /\ dev[10].val = UnmutedCode

\* C17 as claimed: every notification delivered to the driver (routing changed,
\* mixer value changed for any mixer parameter, screen changed) runs update_pad_leds
\* once.
C17_EveryNotificationRefreshes ==
    [][ delivered' # NoNotification =>
            PadWrites(dev') = ExpectedPadWrites(chain_at', solo', mute') ]_vars

\* C17, amended: every notification delivered to the driver runs update_pad_leds
\* once, except a mixer-value notification of the mini variant for a parameter other
\* than mute or solo (the level), which writes nothing.
C17_NotificationRefreshes ==
    [][ delivered' # NoNotification =>
            IF delivered'.sig = "SS_ZCTRL_SET_VALUE" /\ delivered'.symbol \notin {"mute", "solo"}
            THEN dev' = <<>>
            ELSE PadWrites(dev') = ExpectedPadWrites(chain_at', solo', mute') ]_vars

\* the notification of a mute set by the host was delivered and the pads show the
\* mute
C17_Witness ==
    /\ delivered = Notification("SS_ZCTRL_SET_VALUE", "mute", "other")
    /\ mute[0] = 1
    /\ Len(dev) = 16
    /\ dev[9].num = 112 /\ dev[9].val = MutedCode

\* the notification of a moved chain was delivered to the pickup variant
C17_WitnessRouting ==
    /\ delivered = Notification("chain_manager_changed_signal", "", "other")
    /\ chain_at[2] = 0
    /\ Len(dev) = 16
    /\ dev[3].val = DimCode

---------------------------------------------------------------------------
(* LED Reflector: a position whose lookup fails (both variants)            *)

\* pads of positions 0 and 1 (solo of channel 0, mute of channel 1)
DegradeEvents == {NoteOn(96, 100), NoteOn(113, 100)}

\* the position whose lookup raises changes (7, 1 or 6) while pads toggle and the
\* pad LEDs are refreshed by refresh(), the Timer of init and notifications
NextDegrade ==
    \/ \E subs \in InitSubscriptions(variant) : DoInit(subs)
    \/ \E ev \in DegradeEvents : queue = <<>> /\ MidiEvent(ev)
    \/ Refresh
    \/ TimerFires
    \/ \E p \in {1, 6} : queue = <<>> /\ MoveChain(p, 7)
    \/ Deliver

SpecDegrade == Init /\ [][NextDegrade]_vars

\* C25: a refresh that meets a position whose chain lookup fails still writes all 16
\* pads, solo pads 96..103 and then mute pads 112..119; the two pads of the failing
\* position are off (0) and every other position gets the codes it would get if no
\* lookup had failed.
C25_FailureDegradesOnePosition ==
    [][ (PadWrites(dev') # <<>> /\ \E p \in Positions : chain_at'[p] = LookupFails) =>
          LET w == PadWrites(dev')
              healthy == [p \in Positions |->
                            IF chain_at'[p] = LookupFails THEN NoChain ELSE chain_at'[p]]
          IN /\ Len(w) = 16
             /\ \A i \in 1..16 : w[i].num = (IF i <= 8 THEN 96 ELSE 112) + ((i - 1) % 8)
             /\ \A i \in 1..16 :
                   IF chain_at'[(i - 1) % 8] = LookupFails
                   THEN w[i].val = 0
                   ELSE w[i] = ExpectedPadWrites(healthy, solo', mute')[i] ]_vars

\* a refresh while the lookup of position 1 fails and the chain of channel 1, muted,
\* is at position 7: pads 97 and 113 are off, pad 119 shows the muted code and the
\* pads of position 0 their codes
C25_Witness ==
    /\ chain_at[1] = LookupFails /\ chain_at[7] = 1
    /\ mute[1] = 1 /\ solo[0] = 1
    /\ Len(dev) = 16
    /\ dev[2].val = 0 /\ dev[10].val = 0
    /\ dev[16].num = 119 /\ dev[16].val = MutedCode
    /\ dev[1].val = ActiveCode /\ dev[9].val = UnmutedCode

---------------------------------------------------------------------------
(* The refresh on the Timer's thread beside midi_event (pickup variant)    *)

\* the solo pad and the mute pad of position 0
RaceEvents == {NoteOn(96, 100), NoteOn(112, 100)}

\* pads are toggled on the thread of midi_event while the Timer's thread goes
\* through its update_pad_leds pad by pad; nothing else changes the mixer
NextRace ==
    \/ \E subs \in InitSubscriptions(variant) : DoInit(subs)
    \/ \E ev \in RaceEvents : MidiEvent(ev)
    \/ TimerReads
    \/ TimerWrites

SpecRace == Constructed("pickup") /\ [][NextRace]_vars

\* C32: in the pickup variant, once the refresh on the Timer's thread has finished
\* (no other refresh is under way then, and the mixer changes by pad toggles only),
\* the code last written to each pad LED is the code computed from the solo / mute
\* state its position has now: no refresh leaves a code on a LED that it read before a
\* pad toggle, after the refresh of that toggle.
C32_LedsFollowState ==
    (phase = "running" /\ timer = "fired") =>
        \A i \in 1..16 :
            LET e == ExpectedPadWrites(chain_at, solo, mute)[i]
            IN pad_led[e.num] = e.val

---------------------------------------------------------------------------
(* ZYNPOT actions (both variants)                                          *)

ZynpotValues == {0, 1, 63, 64, 65, 127}

\* the first and the last ZYNPOT knob, the knob next to them on either side
ZynpotKnobs(var) == IF var = "mini" THEN {84, 85, 88, 89} ELSE {20, 21, 24, 25}

ZynpotEvents(var) ==
    {CC(cc, v) : cc \in ZynpotKnobs(var), v \in ZynpotValues}
    \cup {CC(52, 127), CC(52, 0)}

NextZynpot ==
    \/ \E subs \in Unconnected : DoInit(subs)
    \/ \E ev \in ZynpotEvents(variant) : MidiEvent(ev)

SpecZynpot == Init /\ [][NextZynpot]_vars

\* C34: no step emits a ZYNPOT host action with delta 0; every ZYNPOT action a step
\* emits has a knob index in 0..3 and a delta of magnitude at most 64, and the step
\* is taken while knob_bank = 1 (both variants).
C34_ZynpotWellFormed ==
    [][ \A i \in DOMAIN cuia' :
          cuia'[i].name = "ZYNPOT" =>
              /\ cuia'[i].delta # 0
              /\ cuia'[i].idx \in 0..3
              /\ cuia'[i].delta \in -64..64
              /\ knob_bank = 1 ]_vars

\* the fourth encoder of the mini variant turned fully counter-clockwise: delta -64
C34_Witness ==
    /\ variant = "mini"
    /\ last_ev = CC(88, 0)
    /\ cuia = <<ZynPot(3, -64)>>

\* the pickup variant: knob 1 seen at 0 and then at 64 gives delta 64
C34_WitnessPickup ==
    /\ variant = "pickup"
    /\ last_ev = CC(21, 64)
    /\ cuia = <<ZynPot(0, 64)>>

\* the pickup variant: a repeated value of knob 4 emits nothing
C34_WitnessNoMove ==
    /\ variant = "pickup"
    /\ knob_bank = 1
    /\ last_ev = CC(24, 127)
    /\ 24 \in DOMAIN last_zynpot_values
    /\ ret /\ cuia = <<>>

---------------------------------------------------------------------------
(* Shutdown: end() against the deferred pad refresh and queued notifications *)

ShutdownEvents == {NoteOn(96, 100), NoteOn(112, 100), CC(52, 127)}

NextShutdown ==
    \/ \E subs \in InitSubscriptions(variant) : DoInit(subs)
    \/ \E ev \in ShutdownEvents : MidiEvent(ev)
    \/ \E param \in {"solo", "mute"} : queue = <<>> /\ ExtSetSwitch(param, 0)
    \/ Deliver
    \/ TimerFires
    \/ End

SpecShutdown == Init /\ [][NextShutdown]_vars

\* C33: the step in which end() runs sends the DAW-mode disable message (note-on
\* channel 15, note 12, velocity 0) as its last device message and leaves no
\* notification subscribed; once end() has completed no step writes to the device,
\* whether or not the deferred pad refresh had fired and whether or not a
\* notification was still queued when end() ran.
C33_NothingAfterEnd ==
    [][ /\ (phase = "running" /\ phase' = "ended") =>
             /\ dev' # <<>>
             /\ dev'[Len(dev')] = DevNoteOn(15, 12, 0)
             /\ subscribed' = {}
        /\ phase = "ended" => dev' = <<>> ]_vars

---------------------------------------------------------------------------
(* LED Reflector calls made outside midi_event (both variants)             *)

\* events that fill the driver's own state: a held switch, shift, the bank, the
\* debounce clock (mini), a synced mixer knob and a tracked ZYNPOT knob (pickup)
ContextEvents(var) ==
    {CC(74, 127), CC(63, 127), CC(63, 0), CC(52, 127)}
    \cup (IF var = "mini" THEN {CC(90, 65)} ELSE {CC(21, 100), CC(22, 64)})

\* between the events the host calls refresh(), the Timer of init expires, and
\* notifications of a mixer change and of a shown screen are raised and delivered
NextContexts ==
    \/ \E subs \in InitSubscriptions(variant) : DoInit(subs)
    \/ \E ev \in ContextEvents(variant) : queue = <<>> /\ MidiEvent(ev)
    \/ Refresh
    \/ TimerFires
    \/ queue = <<>> /\ ExtSetLevel(0, 50 * 127)
    \/ queue = <<>> /\ ExtSetSwitch("mute", 0)
    \/ queue = <<>> /\ HostSignal("SS_GUI_SHOW_SCREEN")
    \/ Deliver

SpecContexts == Init /\ [][NextContexts]_vars

\* the step is the expiry of the Timer of init or the delivery of a notification
DeferredStep == timer' # timer \/ delivered' # NoNotification

\* C26 as claimed: the LED Reflector calls made by the Timer of init, by
\* notifications and as refresh() leave the press registry, the sync set, the encoder
\* memory, the bank, shift and the debounce clock as they were.
C26_ReflectorCallsKeepDriverState ==
    [][ (DeferredStep \/ RefreshStep) => UNCHANGED drv_vars ]_vars

\* C26, amended: the calls made by the Timer of init and by notifications
\* (update_pad_leds, update_mixer_strip, on_screen_change) and refresh() of the mini
\* variant leave all of that state as it was; refresh() of the pickup variant empties
\* the sync set and leaves the rest as it was.
C26_DeferredCallsKeepDriverState ==
    [][ /\ DeferredStep => UNCHANGED drv_vars
        /\ RefreshStep =>
              /\ UNCHANGED <<shift, press_times, knob_bank, last_select_back_time,
                             last_zynpot_values>>
              /\ mixer_synced' = (IF variant = "pickup" THEN {} ELSE mixer_synced) ]_vars

\* a notification of a level change was delivered to the pickup variant while a switch
\* is held, shift is on, knob 1 is synced and knob 2 is tracked
C26_Witness ==
    /\ delivered = Notification("level_changed_signal", "", "other")
    /\ Len(dev) = 16
    /\ shift
    /\ DOMAIN press_times = {74}
    /\ mixer_synced = {21}
    /\ DOMAIN last_zynpot_values = {22}

\* refresh() was called on the mini variant after the debounce clock was set
C26_WitnessRefresh ==
    /\ variant = "mini"
    /\ last_ev = <<>> /\ delivered = NoNotification /\ phase = "running"
    /\ Len(dev) = 16
    /\ last_select_back_time = StartTime
    /\ knob_bank = 1

---------------------------------------------------------------------------
(* Levels written to the mixer (both variants, bank 0)                     *)

\* knob 1 (channel 0) at values on both sides of the centre and at the ends, and the
\* knobs of positions 2, 3 and 4 (no mixer channel, channel out of range, no chain)
LevelKnobEvents(var) ==
    IF var = "mini"
    THEN {CC(85, v) : v \in {0, 1, 63, 64, 65, 100, 127}} \cup {CC(c, 100) : c \in {87, 88, 89}}
    ELSE {CC(21, v) : v \in {0, 64, 100, 127}} \cup {CC(c, 100) : c \in {23, 24, 25}}

\* the mini variant is taken to bank 0; knobs are turned in bank 0 while the host sets
\* the level of channel 0 to 0.0 or 1.0
NextLevels ==
    \/ \E subs \in Unconnected : DoInit(subs)
    \/ knob_bank = 1 /\ MidiEvent(CC(51, 127))
    \/ \E ev \in LevelKnobEvents(variant) : knob_bank = 0 /\ queue = <<>> /\ MidiEvent(ev)
    \/ \E l \in {0, LevelOne} : queue = <<>> /\ ExtSetLevel(0, l)
    \/ Deliver

SpecLevels == Init /\ [][NextLevels]_vars

\* C27: every level the driver writes lies in [0, 1]. A bank 0 knob of the mini
\* variant with a valid chain and a delta d # 0 sets the level L of its channel to
\* min(1, max(0, L + 0.01 d)), and writes nothing for d = 0; every level the pickup
\* variant writes is v/127 for the knob value v; a knob whose position has no valid
\* chain writes nothing.
C27_LevelsWithinRange ==
    [][ /\ \A i \in DOMAIN host_calls' :
              host_calls'[i].op = "set_level" =>
                  /\ 0 <= host_calls'[i].val /\ host_calls'[i].val <= 12700
                  /\ level'[host_calls'[i].chan] = host_calls'[i].val
        /\ \A cc \in 85..92 :
              (variant = "mini" /\ knob_bank = 0 /\ CCStep(cc)) =>
                  LET v == last_ev'[3]
                      d == IF v = 1 THEN -1 ELSE IF v = 127 THEN 1 ELSE v - 64
                      ch == chain_at[cc - 85]
                      to == level[ch] + 127 * d
                  IN IF ValidChain(cc - 85) /\ d # 0
                     THEN host_calls' = <<HostCall("set_level", ch,
                                             IF to < 0 THEN 0 ELSE IF to > 12700 THEN 12700 ELSE to)>>
                     ELSE host_calls' = <<>> /\ level' = level
        /\ \A cc \in 21..28 :
              (variant = "pickup" /\ knob_bank = 0 /\ CCStep(cc)) =>
                  /\ host_calls' \in {<<>>, <<HostCall("set_level", chain_at[cc - 21], 100 * last_ev'[3])>>}
                  /\ ~ValidChain(cc - 21) => (host_calls' = <<>> /\ level' = level) ]_vars

\* value 0 of knob 1 of the mini variant (delta -64) took channel 0 to level 0.0
C27_Witness ==
    /\ variant = "mini"
    /\ last_ev = CC(85, 0)
    /\ host_calls = <<HostCall("set_level", 0, 0)>>
    /\ level[0] = 0

\* the pickup variant wrote 0/127 after knob 1 had synced
C27_WitnessPickup ==
    /\ variant = "pickup"
    /\ last_ev = CC(21, 0)
    /\ 21 \in mixer_synced
    /\ host_calls = <<HostCall("set_level", 0, 0)>>

---------------------------------------------------------------------------
(* Shift (both variants)                                                   *)

\* C28: shift is False after construction; a CC 0x3F event sets it to (value # 0), is
\* consumed and emits no host action; no other event, no refresh(), no Timer call, no
\* notification and no passing of time changes it. So shift always is (value # 0) of
\* the last CC 0x3F event.
C28_ShiftFollowsButton ==
    /\ shift = FALSE
    /\ [][ IF CCStep(63)
           THEN /\ shift' = (last_ev'[3] # 0)
                /\ ret' /\ ~raised'
                /\ NoHostAction /\ dev' = <<>>
           ELSE shift' = shift ]_vars

\* CC 0x3F with value 1 was handled while CC 74 is held: shift is on
C28_Witness ==
    /\ last_ev = CC(63, 1)
    /\ shift
    /\ ret
    /\ DOMAIN press_times = {74}

---------------------------------------------------------------------------
(* Transport Decoder: keyboard notes, unknown kinds, unmapped controllers,  *)
(* malformed messages and failing lookups (both variants)                  *)

\* notes around both ends of the pad range, on channels 0 and 3
KeyboardNotes ==
    {NoteOn(60, 100), NoteOff(60, 0), NoteOn(95, 1), NoteOn(120, 127), NoteOff(95, 0),
     <<147, 60, 100>>}

\* pitch bend, polyphonic and channel pressure, MIDI clock, a system-exclusive block
OtherKinds == {<<224, 0, 64>>, <<160, 60, 10>>, <<208, 40>>, <<248>>, <<240, 0, 32, 41, 247>>}

\* controllers neither variant maps (modulation, volume, sustain, bank select), one
\* on channel 3, and the first knob of the other variant
UnmappedCCs ==
    {CC(1, 64), CC(7, 127), CC(64, 127), CC(64, 0), CC(0, 5), <<179, 1, 64>>}
    \cup (IF variant = "mini" THEN {CC(21, 64)} ELSE {CC(85, 64)})

\* messages cut short: a note-on, a control change and a program change without
\* their data bytes
Truncated == {<<144>>, <<144, 60>>, <<176, 1>>, <<192>>}

\* the pads and (mini) the knob of position 7, whose lookup raises
FailingLookups == {NoteOn(103, 100), NoteOn(119, 100), CC(92, 65)}

\* events that build up driver state: shift, a held switch, the bank buttons
StateEvents == {CC(63, 127), CC(63, 0), CC(74, 127), CC(51, 127), CC(52, 127)}

NextDecoder ==
    \/ \E subs \in Unconnected : DoInit(subs)
    \/ \E ev \in KeyboardNotes \cup OtherKinds \cup UnmappedCCs : MidiEvent(ev)
    \/ \E ev \in Truncated \cup FailingLookups : MidiEvent(ev)
    \/ \E ev \in StateEvents : MidiEvent(ev)

SpecDecoder == Init /\ [][NextDecoder]_vars

\* the step handles a complete note-on or note-off whose note is outside [96, 119]
KeyboardNoteStep ==
    /\ Len(last_ev') = 3
    /\ evtype(last_ev') \in {8, 9}
    /\ (last_ev'[2] < 96 \/ last_ev'[2] > 119)

\* the step forwards its event, as it came, exactly once and changes no driver state
ForwardedUnchanged ==
    /\ zynmidi' = <<last_ev'>>
    /\ cuia' = <<>> /\ host_calls' = <<>> /\ dev' = <<>>
    /\ UNCHANGED <<drv_vars, host_vars>>

\* C13 as claimed: a note-on or note-off outside [96, 119] is forwarded to the host
\* routing exactly once with its bytes unmodified, changes no driver state and is
\* reported as not handled (midi_event returns False).
C13_KeyboardNoteNotConsumed ==
    [][ KeyboardNoteStep => (ForwardedUnchanged /\ ret' = FALSE /\ ~raised') ]_vars

\* C13, amended: a note-on or note-off outside [96, 119] is forwarded to the host
\* routing exactly once with its bytes unmodified and changes no driver state;
\* midi_event, having forwarded the note itself, returns True.
C13_KeyboardNoteForwarded ==
    [][ KeyboardNoteStep => (ForwardedUnchanged /\ ret' = TRUE /\ ~raised') ]_vars

\* note 95, just below the pads, came on channel 0 while shift and a switch were held
\* in bank 2, and was forwarded
C13_Witness ==
    /\ last_ev = NoteOn(95, 1)
    /\ zynmidi = <<NoteOn(95, 1)>>
    /\ shift /\ 74 \in DOMAIN press_times /\ knob_bank = 2

\* the controllers the variant maps
MappedCCs ==
    {51, 52, 63, 74, 75, 76, 77, 102, 103, 104, 105, 106, 107, 115, 117}
    \cup (IF variant = "mini" THEN 85..92 ELSE 21..28)

\* the step handles an event of a kind other than note-on, note-off, control change
\* and program change, or a control change of a controller the variant does not map
UnmappedStep ==
    /\ Len(last_ev') >= 1
    /\ \/ evtype(last_ev') \notin {8, 9, 11, 12}
       \/ /\ evtype(last_ev') = 11 /\ Len(last_ev') = 3
          /\ last_ev'[2] \notin MappedCCs

\* C14: every event of another kind than note-on, note-off, control change and
\* program change, and every control change of a controller the variant does not
\* map, whatever its value, is passed through: midi_event returns False, emits no
\* host action, writes nothing to the device and changes no driver state.
C14_UnmappedPassThrough ==
    [][ UnmappedStep =>
          /\ ret' = FALSE /\ ~raised'
          /\ cuia' = <<>> /\ host_calls' = <<>> /\ zynmidi' = <<>> /\ dev' = <<>>
          /\ UNCHANGED <<drv_vars, host_vars>> ]_vars

\* C15: midi_event never raises, whatever the event (unrecognised status byte,
\* truncated message, system-exclusive block) and whatever the routing lookup does.
C15_NeverRaises == [][ ~raised' ]_vars

\* the step handles a note-on or note-off whose note lies in the pad range 96..119
PadNoteStep ==
    /\ last_ev' # <<>> /\ evtype(last_ev') \in {8, 9} /\ Len(last_ev') >= 2
    /\ 96 <= last_ev'[2] % 128 /\ last_ev'[2] % 128 <= 119

\* C29: every note-on and note-off with a note in 96..119 is consumed and never
\* forwarded, whatever its velocity; the mixer is mutated only by a note-on with
\* velocity > 0 on a solo pad (96..103) or a mute pad (112..119) whose position has a
\* valid chain; note-offs, note-ons with velocity 0 and pads 104..111 mutate nothing
\* and refresh no LED.
C29_PadNotesConsumed ==
    [][ PadNoteStep =>
          LET note == last_ev'[2] % 128
              acting == /\ evtype(last_ev') = 9 /\ Len(last_ev') >= 3 /\ last_ev'[3] % 128 > 0
                        /\ (note <= 103 \/ note >= 112)
                        /\ ValidChain(note % 8)
          IN /\ ret'
             /\ zynmidi' = <<>>
             /\ ~acting => /\ host_calls' = <<>>
                           /\ solo' = solo /\ mute' = mute /\ level' = level
                           /\ dev' = <<>> ]_vars

---------------------------------------------------------------------------
(* Bank 2: the knob row as plain controllers (both variants)               *)

\* every knob of the variant's row, on channels 0 and 3, at rest and at both ends
ForwardKnobEvents ==
    {<<176 + c, KnobBase(variant) + k, v>> : c \in {0, 3}, k \in 0..7, v \in {0, 1, 64, 127}}

NextForward ==
    \/ \E subs \in Unconnected : DoInit(subs)
    \/ \E ev \in {CC(51, 127), CC(52, 127), CC(63, 127), CC(63, 0)} : MidiEvent(ev)
    \/ \E ev \in ForwardKnobEvents : knob_bank = 2 /\ MidiEvent(ev)

SpecForward == Init /\ [][NextForward]_vars

\* the step handles, in bank 2, a control change of a knob of the variant's row
Bank2KnobStep ==
    /\ knob_bank = 2
    /\ Len(last_ev') = 3 /\ evtype(last_ev') = 11
    /\ last_ev'[2] \in (IF variant = "mini" THEN 85..92 ELSE 21..28)

\* C18: in bank 2 every control change of the variant's knob row is forwarded to the
\* host routing as one control change with the same channel and the same value and a
\* re-mapped controller number (mini: n - 61), is consumed, and changes no driver state
\* and no mixer level.
C18_Bank2Forwards ==
    [][ Bank2KnobStep =>
          /\ Len(zynmidi') = 1
          /\ Len(zynmidi'[1]) = 3
          /\ zynmidi'[1][1] = last_ev'[1]
          /\ zynmidi'[1][3] = last_ev'[3]
          /\ (variant = "mini" => zynmidi'[1][2] = last_ev'[2] - 61)
          /\ ret' = TRUE
          /\ cuia' = <<>> /\ host_calls' = <<>>
          /\ UNCHANGED <<drv_vars, host_vars>> ]_vars

---------------------------------------------------------------------------
(* The driver as a whole: every kind of event, refresh, notifications and   *)
(* changes of the mixer from outside                                       *)

Events ==
    {CC(51, 127), CC(52, 127), CC(51, 0), CC(63, 127), CC(63, 0)}
    \cup {CC(102, 127), CC(85, 114), CC(21, 101), CC(1, 64)}
    \cup {NoteOn(96, 100), NoteOn(60, 100), <<192, 5, 0>>}

Next ==
    \/ \E subs \in InitSubscriptions(variant) : DoInit(subs)
    \/ \E ev \in Events : MidiEvent(ev)
    \/ Refresh
    \/ Deliver
    \/ \E sig \in {"SS_GUI_SHOW_SCREEN"} : queue = <<>> /\ HostSignal(sig)

Spec == Init /\ [][Next]_vars

\* the device writes of the step set bank indicator cc
IndicatorWritten(cc) ==
    \E i \in DOMAIN dev' : dev'[i].msg = "cc" /\ dev'[i].chan = 0 /\ dev'[i].num = cc

\* C19: from init onward, with an output device, the values last written to the two
\* bank indicators agree with knob_bank after every step: CC 51 is lit (127) iff
\* knob_bank = 0, CC 52 is lit iff knob_bank = 1, both are dark (0) in bank 2; and
\* every bank transition writes both indicators.
C19_IndicatorsFollowBank ==
    [][ /\ (phase' = "running" /\ idev_out' # None) =>
              /\ indicator'[51] \in {0, 127} /\ indicator'[52] \in {0, 127}
              /\ (indicator'[51] = 127) <=> (knob_bank' = 0)
              /\ (indicator'[52] = 127) <=> (knob_bank' = 1)
              /\ (knob_bank' = 2) => (indicator'[51] = 0 /\ indicator'[52] = 0)
        /\ (knob_bank' # knob_bank) => (IndicatorWritten(51) /\ IndicatorWritten(52)) ]_vars

\* the mini variant went up from bank 1, where CC 52 was lit, to bank 2: both dark
C19_Witness ==
    /\ variant = "mini"
    /\ last_ev = CC(52, 127)
    /\ knob_bank = 2
    /\ bank_run = [cc |-> 52, len |-> 1, start |-> 1]
    /\ indicator[51] = 0 /\ indicator[52] = 0
    /\ Len(dev) = 8

\* C20: knob_bank is 0, 1 or 2 in every reachable state of either variant, and it
\* changes only in a step that handles CC 51 or CC 52 with a value > 0 while shift is
\* not held: every other event, refresh and delivered notification leaves it as it is.
C20_BankOwnership ==
    /\ knob_bank \in {0, 1, 2}
    /\ [][ /\ knob_bank' \in {0, 1, 2}
           /\ (knob_bank' # knob_bank) =>
                 ((PressStep(51) \/ PressStep(52)) /\ ~shift /\ delivered' = NoNotification) ]_vars

\* the pickup variant went down from bank 0 to bank 2 by an unshifted CC 51
C20_Witness ==
    /\ variant = "pickup"
    /\ last_ev = CC(51, 127)
    /\ ~shift
    /\ knob_bank = 2
    /\ bank_run = [cc |-> 51, len |-> 1, start |-> 0]

=============================================================================
